---- MODULE Spec2Model ----
(***************************************************************************)
(* State-machine model of the MSDF text engine:                            *)
(*   - BoxManager  (stable-id rectangle pool, swap-with-last removal)      *)
(*   - NoteBox     (three rectangles per box, part lookup, dispose)        *)
(*   - the demo's InteractionHandler pick (raycast -> getPart)             *)
(*   - TextManager (growable glyph instance buffer)                        *)
(*   - TextArea    (glyph layout, word wrap, position index)               *)
(*                                                                         *)
(* Lengths are integers: world units are held in hundredths (textScale is  *)
(* 0.01, so one font unit is one hundredth of a world unit).               *)
(***************************************************************************)
EXTENDS Integers, Sequences, FiniteSets, TLC

VARIABLES
    \* ---- BoxManager ----
    maxBoxes,       \* capacity the pool was constructed with
    instances,      \* BoxInstance[]  (slot s is instances[s + 1])
    idCounter,      \* next logical id
    idToIndex,      \* Map<logicalId, physical index>
    meshCount,      \* mesh.count
    meshData,       \* per-slot GPU attributes of the InstancedMesh
    \* ---- NoteBoxes known to the InteractionHandler ----
    noteBoxMap,     \* Map<name, NoteBox>, in insertion order
    \* ---- observation of the last call ----
    lastCall,       \* operation, argument and result of the last call
    issued,         \* logical ids addBox has returned so far
    \* ---- TextManager ----
    capacity,       \* instances the glyph buffers have room for
    mesh,           \* the glyph InstancedMesh: count and per-slot attributes
    growthCount,    \* _profileData.growthCount
    grown,          \* the buffers before and after the last call's grow()
    fontData,       \* "null", "loaded", or "nochars" (a descriptor without chars)
    uMap,           \* material.uniforms.uMap.value: "null" or "texture"
    loading,        \* where the load() promise stands, and how it settled
    managedObjects, \* Set<any>, in insertion order
    textCall,       \* the last TextManager call and whether it threw
    \* ---- TextArea ----
    area,           \* the TextArea's fields
    areaGlyphs,     \* the GlyphLayout[] the last computeLayout() returned
    areaCall,       \* the last call on the TextArea: its arguments and result
    \* ---- TextEditor ----
    activeArea,     \* index of the focused TextArea in editAreas, 0 for null
    isFocused,      \* the editor's focused flag
    editAreas,      \* the TextAreas of the scene the editor can be focused on
    clipboard,      \* clipboard.readText() promises that have not settled
    notified,       \* focus events delivered to a subscriber by the last
                    \* handler, and the last one delivered before it
    editorCall      \* the last editor handler and its arguments

boxVars == <<maxBoxes, instances, idCounter, idToIndex, meshCount, meshData, noteBoxMap,
             lastCall, issued>>

textVars == <<capacity, mesh, growthCount, grown, fontData, uMap, loading,
              managedObjects, textCall>>

\* the TextManager but for its set of managed objects
textRest == <<capacity, mesh, growthCount, grown, fontData, uMap, loading,
              textCall>>

editorVars == <<activeArea, isFocused, editAreas, clipboard, notified,
                editorCall>>

areaVars == <<area, areaGlyphs, areaCall, editorVars>>

vars == <<boxVars, textVars, areaVars>>

-----------------------------------------------------------------------------
(* Bounds of the model *)

\* rectangles a directly driven pool is constructed for (maxBoxes argument)
MaxBoxes == 3
\* logical ids handed out before the model stops adding
MaxIds == 5
\* NoteBoxes alive at the same time
MaxNoteBoxes == 2

-----------------------------------------------------------------------------
(* Small helpers *)

Max(a, b) == IF a >= b THEN a ELSE b
Min(a, b) == IF a <= b THEN a ELSE b
Abs(a) == IF a < 0 THEN -a ELSE a

Vec(x, y, z) == [x |-> x, y |-> y, z |-> z]

\* Vector3.applyMatrix4 with the world matrix of an unrotated, unscaled
\* NoteBox without parent: a translation by its position
ApplyMatrix(v, pos) == Vec(v.x + pos.x, v.y + pos.y, v.z + pos.z)

GradientMode == [NONE |-> 0, VERTICAL |-> 1, HORIZONTAL |-> 2, RADIAL |-> 3]

\* the font descriptor the engine was loaded with
Char(c, width, height, xoffset, yoffset, xadvance, x, y) ==
    [char |-> c, width |-> width, height |-> height, xoffset |-> xoffset,
     yoffset |-> yoffset, xadvance |-> xadvance, x |-> x, y |-> y]

FontData ==
    [chars |-> << Char("a", 16, 20, 2, 12, 20, 0, 0),
                  Char("W", 28, 30, 1, 2, 30, 16, 0),
                  Char(" ", 0, 0, 0, 0, 10, 44, 0) >>,
     common |-> [lineHeight |-> 40, scaleW |-> 64, scaleH |-> 32]]

\* a descriptor whose chars have no entry for the space
FontNoSpace ==
    [FontData EXCEPT !.chars = <<FontData.chars[1], FontData.chars[2]>>]

\* arguments the callers of addBox / updateBox pass
BoxArgs ==
    { [position |-> Vec(0, 0, 0), scale |-> Vec(100, 100, 100),
       color1 |-> "0x00d4ff", color2 |-> "undefined", alpha |-> 100,
       mode |-> GradientMode.NONE],
      [position |-> Vec(100, -100, 0), scale |-> Vec(200, 100, 100),
       color1 |-> "0x444444", color2 |-> "0x2a2a2a", alpha |-> 50,
       mode |-> GradientMode.VERTICAL] }

Args(position, scale, color1, color2, alpha, mode) ==
    [position |-> position, scale |-> scale, color1 |-> color1,
     color2 |-> color2, alpha |-> alpha, mode |-> mode]

-----------------------------------------------------------------------------
(* BoxManager *)

\* the BoxManager object as one value
BM == [maxBoxes |-> maxBoxes, instances |-> instances, idCounter |-> idCounter,
       idToIndex |-> idToIndex, meshCount |-> meshCount,
       meshData |-> meshData]

EmptySlot == [matrix |-> "zero", color |-> "zero", alpha |-> 0,
              color2 |-> "zero", mode |-> 0]

\* new BoxManager(scene, n)
BoxManagerNew(n) ==
    [maxBoxes |-> n, instances |-> << >>, idCounter |-> 0, idToIndex |-> << >>,
     meshCount |-> 0, meshData |-> [s \in 0..(n - 1) |-> EmptySlot]]

\* Map.get: "undefined" is written -1 (no physical index is negative)
MapGet(m, k) == IF k \in DOMAIN m THEN m[k] ELSE -1

MapSet(m, k, v) == [x \in (DOMAIN m) \cup {k} |-> IF x = k THEN v ELSE m[x]]

MapDelete(m, k) == [x \in (DOMAIN m) \ {k} |-> m[x]]

updateInstance(b, index) ==
    LET instance == b.instances[index + 1]
    IN  [b EXCEPT !.meshData[index] =
            [matrix |-> <<instance.position, instance.scale>>,
             color  |-> instance.color1,
             alpha  |-> instance.alpha,
             color2 |-> instance.color2,
             mode   |-> instance.gradientMode]]

\* addBox whose capacity test is off by one
addBox_OffByOne(b, a) ==
    IF Len(b.instances) > b.maxBoxes
    THEN [bm |-> b, ret |-> -1]
    ELSE LET logicalId == b.idCounter
             physicalIndex == Len(b.instances)
             instance == [logicalId |-> logicalId,
                          position |-> a.position,
                          scale |-> a.scale,
                          color1 |-> a.color1,
                          color2 |-> IF a.color2 = "undefined"
                                     THEN a.color1 ELSE a.color2,
                          alpha |-> a.alpha,
                          gradientMode |-> a.mode]
         IN  [bm |-> [b EXCEPT !.idCounter = logicalId + 1,
                               !.instances = Append(b.instances, instance),
                               !.idToIndex = MapSet(b.idToIndex, logicalId,
                                                    physicalIndex),
                               !.meshCount = Len(b.instances) + 1],
              ret |-> logicalId]

addBox(b, a) ==
    IF Len(b.instances) >= b.maxBoxes
    THEN [bm |-> b, ret |-> -1]
    ELSE LET logicalId == b.idCounter
             physicalIndex == Len(b.instances)
             instance == [logicalId |-> logicalId,
                          position |-> a.position,
                          scale |-> a.scale,
                          color1 |-> a.color1,
                          color2 |-> IF a.color2 = "undefined"
                                     THEN a.color1 ELSE a.color2,
                          alpha |-> a.alpha,
                          gradientMode |-> a.mode]
             b1 == [b EXCEPT !.idCounter = logicalId + 1,
                             !.instances = Append(b.instances, instance),
                             !.idToIndex = MapSet(b.idToIndex, logicalId,
                                                  physicalIndex)]
             b2 == updateInstance(b1, physicalIndex)
         IN  [bm |-> [b2 EXCEPT !.meshCount = Len(b2.instances)],
              ret |-> logicalId]

\* removeBox that forgets to remap the moved record's id
removeBox_NoRemap(b, logicalId) ==
    LET index == MapGet(b.idToIndex, logicalId)
        lastIndex == Len(b.instances) - 1
    IN  IF index = -1 THEN b
        ELSE LET b1 == IF index # lastIndex
                       THEN updateInstance(
                               [b EXCEPT !.instances[index + 1] =
                                            b.instances[lastIndex + 1]],
                               index)
                       ELSE b
                 popped == SubSeq(b1.instances, 1, Len(b1.instances) - 1)
             IN  [b1 EXCEPT !.instances = popped,
                            !.idToIndex = MapDelete(b1.idToIndex, logicalId),
                            !.meshCount = Len(popped)]

\* removeBox that drops the last record instead of swapping it in
removeBox_NoSwap(b, logicalId) ==
    LET index == MapGet(b.idToIndex, logicalId)
    IN  IF index = -1 THEN b
        ELSE LET popped == SubSeq(b.instances, 1, Len(b.instances) - 1)
             IN  [b EXCEPT !.instances = popped,
                           !.idToIndex = MapDelete(b.idToIndex, logicalId),
                           !.meshCount = Len(popped)]

\* removeBox without the early return for an unknown id
removeBox_NoGuard(b, logicalId) ==
    LET index == MapGet(b.idToIndex, logicalId)
        lastIndex == Len(b.instances) - 1
    IN  IF lastIndex < 0 THEN b
        ELSE LET b1 == IF index # lastIndex /\ index # -1
                       THEN LET lastInstance == b.instances[lastIndex + 1]
                                s1 == [b EXCEPT
                                        !.instances[index + 1] = lastInstance,
                                        !.idToIndex = MapSet(b.idToIndex,
                                            lastInstance.logicalId, index)]
                            IN  updateInstance(s1, index)
                       ELSE b
                 popped == SubSeq(b1.instances, 1, Len(b1.instances) - 1)
             IN  [b1 EXCEPT !.instances = popped,
                            !.idToIndex = MapDelete(b1.idToIndex, logicalId),
                            !.meshCount = Len(popped)]

removeBox(b, logicalId) ==
    LET index == MapGet(b.idToIndex, logicalId)
        lastIndex == Len(b.instances) - 1
    IN  IF index = -1 THEN b
        ELSE LET b1 == IF index # lastIndex
                       THEN LET lastInstance == b.instances[lastIndex + 1]
                                s1 == [b EXCEPT
                                        !.instances[index + 1] = lastInstance,
                                        !.idToIndex = MapSet(b.idToIndex,
                                            lastInstance.logicalId, index)]
                            IN  updateInstance(s1, index)
                       ELSE b
                 popped == SubSeq(b1.instances, 1, Len(b1.instances) - 1)
             IN  [b1 EXCEPT !.instances = popped,
                            !.idToIndex = MapDelete(b1.idToIndex, logicalId),
                            !.meshCount = Len(popped)]

\* updateBox that changes the record and leaves the instance buffers alone
updateBox_NoUpload(b, logicalId, a) ==
    LET index == MapGet(b.idToIndex, logicalId)
    IN  IF index = -1 THEN b
        ELSE LET old == b.instances[index + 1]
                 instance == [logicalId |-> old.logicalId,
                              position |-> a.position,
                              scale |-> a.scale,
                              color1 |-> a.color1,
                              color2 |-> IF a.color2 = "undefined"
                                         THEN a.color1 ELSE a.color2,
                              alpha |-> a.alpha,
                              gradientMode |-> a.mode]
             IN  [b EXCEPT !.instances[index + 1] = instance]

updateBox(b, logicalId, a) ==
    LET index == MapGet(b.idToIndex, logicalId)
    IN  IF index = -1 THEN b
        ELSE LET old == b.instances[index + 1]
                 instance == [logicalId |-> old.logicalId,
                              position |-> a.position,
                              scale |-> a.scale,
                              color1 |-> a.color1,
                              color2 |-> IF a.color2 = "undefined"
                                         THEN a.color1 ELSE a.color2,
                              alpha |-> a.alpha,
                              gradientMode |-> a.mode]
             IN  updateInstance([b EXCEPT !.instances[index + 1] = instance],
                                index)

clear(b) ==
    [b EXCEPT !.instances = << >>, !.idToIndex = << >>, !.idCounter = 0,
              !.meshCount = 0]

SetBMInit(b) ==
    /\ maxBoxes = b.maxBoxes
    /\ instances = b.instances
    /\ idCounter = b.idCounter
    /\ idToIndex = b.idToIndex
    /\ meshCount = b.meshCount
    /\ meshData = b.meshData

SetBM(b) ==
    /\ maxBoxes' = b.maxBoxes
    /\ instances' = b.instances
    /\ idCounter' = b.idCounter
    /\ idToIndex' = b.idToIndex
    /\ meshCount' = b.meshCount
    /\ meshData' = b.meshData

-----------------------------------------------------------------------------
(* NoteBox *)

\* new TextArea(fontData)
TextAreaNew ==
    [width |-> 800, height |-> 600, text |-> << >>, wordWrap |-> TRUE,
     lineSpacing |-> 1, styles |-> << >>, placeholder |-> << >>,
     placeholderColor |-> "0x666666", defaultColor |-> "0xffffff",
     caretIndex |-> 0, lastCaretPos |-> [x |-> 0, y |-> 0],
     fontData |-> FontData, visualMap |-> << >>]

\* header height in hundredths of a world unit:
\* fontData.common.lineHeight * textManager.textScale, textScale = 0.01
HeaderHeight == FontData.common.lineHeight

updateGeometry(b, nb) ==
    LET headerHeight == HeaderHeight
        headerPos == ApplyMatrix(Vec(nb.width \div 2, -(headerHeight \div 2), 1),
                                 nb.position)
        b1 == updateBox(b, nb.headerId,
                  Args(headerPos, Vec(nb.width, headerHeight, 100),
                       "0x666666", "0x666666", 100, GradientMode.NONE))
        bodyH == Max(10, nb.height - headerHeight)
        bodyY == -(headerHeight + (bodyH \div 2))
        bodyPos == ApplyMatrix(Vec(nb.width \div 2, bodyY, 0), nb.position)
        b2 == updateBox(b1, nb.bodyId,
                  Args(bodyPos, Vec(nb.width, bodyH, 100),
                       "0x222222", "0x222222", 100, GradientMode.NONE))
        handlePos == ApplyMatrix(Vec(nb.width - 20, -nb.height + 20, 2),
                                 nb.position)
        b3 == updateBox(b2, nb.resizeHandleId,
                  Args(handlePos, Vec(40, 40, 100),
                       "0x888888", "0xffffff", 100, GradientMode.RADIAL))
    IN  [bm |-> b3, nb |-> [nb EXCEPT !.headerHeight = headerHeight]]

\* new NoteBox(textManager, boxManager, name); the font is loaded
NoteBoxNew(b, name) ==
    LET r1 == addBox(b, Args(Vec(0, 0, 0), Vec(100, 100, 100),
                             "0x666666", "0x666666", 100, GradientMode.NONE))
        r2 == addBox(r1.bm, Args(Vec(0, 0, 0), Vec(100, 100, 100),
                             "0x222222", "0x222222", 100, GradientMode.NONE))
        r3 == addBox(r2.bm, Args(Vec(0, 0, 0), Vec(50, 50, 100),
                             "0xffffff", "0x888888", 100, GradientMode.RADIAL))
        nb == [name |-> name,
               headerId |-> r1.ret, bodyId |-> r2.ret,
               resizeHandleId |-> r3.ret,
               width |-> 1000, height |-> 500,
               autoHeight |-> TRUE, autoWidth |-> TRUE, minWidth |-> 400,
               position |-> Vec(0, 0, 0),
               headerHeight |-> 100,
               titleArea |-> TextAreaNew, bodyArea |-> TextAreaNew]
    IN  updateGeometry(r3.bm, nb)

getPart(nb, instanceId) ==
    IF instanceId = nb.headerId THEN "header"
    ELSE IF instanceId = nb.bodyId THEN "body"
    ELSE IF instanceId = nb.resizeHandleId THEN "resize"
    ELSE "null"

dispose(b, nb) ==
    removeBox(removeBox(removeBox(b, nb.headerId), nb.bodyId),
              nb.resizeHandleId)

setPosition(b, nb, x, y, z) ==
    updateGeometry(b, [nb EXCEPT !.position = Vec(x, y, z)])

\* setSize that leaves the rectangles as they were
setSize_NoRefresh(b, nb, w, h) ==
    [bm |-> b, nb |-> [nb EXCEPT !.width = w, !.height = h]]

\* NoteBox.setSize(w, h)
setSize(b, nb, w, h) ==
    updateGeometry(b, [nb EXCEPT !.width = w, !.height = h])

-----------------------------------------------------------------------------
(* InteractionHandler: the mousedown pick *)

\* Array.prototype.sort by world z (stable)
RECURSIVE SortByZ(_)
SortByZ(boxes) ==
    IF Len(boxes) <= 1 THEN boxes
    ELSE LET rest == SortByZ(Tail(boxes))
             h == Head(boxes)
             k == Cardinality({i \in 1..Len(rest) :
                                  rest[i].position.z < h.position.z})
         IN  SubSeq(rest, 1, k) \o <<h>> \o SubSeq(rest, k + 1, Len(rest))

IndexOfName(boxes, name) ==
    IF \E i \in 1..Len(boxes) : boxes[i].name = name
    THEN CHOOSE i \in 1..Len(boxes) : boxes[i].name = name
    ELSE 0

\* bringToFront: z order renormalised in steps of 0.05, the hit box last.
\* Returns the BoxManager and the NoteBoxes (keyed by name) after the
\* setPosition calls.
RECURSIVE Renormalise(_, _, _, _)
Renormalise(b, boxes, i, acc) ==
    IF i > Len(boxes) THEN [bm |-> b, boxes |-> acc]
    ELSE LET nb == boxes[i]
             targetZ == (i - 1) * 5
         IN  IF nb.position.z # targetZ
             THEN LET r == setPosition(b, nb, nb.position.x, nb.position.y,
                                       targetZ)
                  IN  Renormalise(r.bm, boxes, i + 1, Append(acc, r.nb))
             ELSE Renormalise(b, boxes, i + 1, Append(acc, nb))

bringToFront(b, map, name) ==
    LET sorted == SortByZ(map)
        index == IndexOfName(sorted, name)
        boxes == IF index > 0
                 THEN SubSeq(sorted, 1, index - 1)
                      \o SubSeq(sorted, index + 1, Len(sorted))
                      \o <<sorted[index]>>
                 ELSE sorted
        r == Renormalise(b, boxes, 1, << >>)
    IN  [bm |-> r.bm,
         map |-> [i \in 1..Len(map) |->
                    r.boxes[IndexOfName(r.boxes, map[i].name)]]]

\* the loop over noteBoxMap.values(): the first NoteBox whose getPart
\* answers for instanceId (0 when there is none)
HitBox(map, instanceId) ==
    LET hits == {i \in 1..Len(map) : getPart(map[i], instanceId) # "null"}
    IN  IF hits = {} THEN 0
        ELSE CHOOSE i \in hits : \A j \in hits : i <= j

-----------------------------------------------------------------------------------------------------------------------------------------------------
(* TextManager *)

\* the TextManager object as one value
TM == [capacity |-> capacity, mesh |-> mesh, growthCount |-> growthCount,
       fontData |-> fontData, uMap |-> uMap,
       managedObjects |-> managedObjects]

\* a slot of a freshly allocated (zero-filled) buffer
ZeroMatrix ==
    [position |-> Vec(0, 0, 0), scale |-> Vec(0, 0, 0), rotation |-> 0]
ZeroUv == [u |-> 0, v |-> 0, w |-> 0, h |-> 0]
ZeroColor == "0x000000"

\* createMesh(capacity): zeroed instance buffers, count 0
createMesh(cap) ==
    [count |-> 0,
     instanceMatrix |-> [i \in 0..(cap - 1) |-> ZeroMatrix],
     aUvOffset |-> [i \in 0..(cap - 1) |-> ZeroUv],
     aColor |-> [i \in 0..(cap - 1) |-> ZeroColor]]

\* new TextManager(scene, initialCapacity)
TextManagerNew(initialCapacity) ==
    [capacity |-> initialCapacity, mesh |-> createMesh(initialCapacity),
     growthCount |-> 0, fontData |-> "null", uMap |-> "null",
     managedObjects |-> << >>]

\* Math.ceil(n * 0.2)
CeilFifth(n) == (n + 4) \div 5

\* padding is capped at this many instances
PaddingCap == 10000
\* a growth leaves at least this many free instances
MinSlack == 50
\* the capacity clear() shrinks to
ClearCapacity == 100

\* a growth that allocates the capacity the pool already has
GrowCapacity_None(requiredCapacity, cap) == cap

\* a growth to exactly the required capacity
GrowCapacity_Exact(requiredCapacity, cap) == Max(requiredCapacity, cap)

\* the capacity grow(requiredCapacity) allocates
GrowCapacity(requiredCapacity, cap) ==
    LET padding == Min(CeilFifth(requiredCapacity), PaddingCap)
        newCapacity == Max(requiredCapacity + padding,
                           requiredCapacity + MinSlack)
    IN  Max(newCapacity, cap)

\* TypedArray.set(old.subarray(0, n)): the first n slots of old over new
CopyPrefix(new, old, n) ==
    [i \in DOMAIN new |-> IF i < n THEN old[i] ELSE new[i]]

\* grow that copies one record too few
grow_DropLast(tm, requiredCapacity) ==
    LET newCapacity == GrowCapacity(requiredCapacity, tm.capacity)
        oldMesh == tm.mesh
        oldCount == oldMesh.count
        newMesh == createMesh(newCapacity)
    IN  [tm EXCEPT
         !.capacity = newCapacity,
         !.mesh = [count |-> oldCount,
                   instanceMatrix |-> CopyPrefix(newMesh.instanceMatrix,
                                        oldMesh.instanceMatrix, oldCount - 1),
                   aUvOffset |-> CopyPrefix(newMesh.aUvOffset,
                                        oldMesh.aUvOffset, oldCount - 1),
                   aColor |-> CopyPrefix(newMesh.aColor,
                                        oldMesh.aColor, oldCount - 1)],
         !.growthCount = tm.growthCount + 1]

grow(tm, requiredCapacity) ==
    LET newCapacity == GrowCapacity(requiredCapacity, tm.capacity)
        oldMesh == tm.mesh
        oldCount == oldMesh.count
        newMesh == createMesh(newCapacity)
        copied ==
            IF oldCount > 0
            THEN [count |-> oldCount,
                  instanceMatrix |-> CopyPrefix(newMesh.instanceMatrix,
                                        oldMesh.instanceMatrix, oldCount),
                  aUvOffset |-> CopyPrefix(newMesh.aUvOffset,
                                        oldMesh.aUvOffset, oldCount),
                  aColor |-> CopyPrefix(newMesh.aColor,
                                        oldMesh.aColor, oldCount)]
            ELSE newMesh
    IN  [tm EXCEPT !.capacity = newCapacity, !.mesh = copied,
                   !.growthCount = tm.growthCount + 1]

NoGrowth ==
    [did |-> FALSE, required |-> 0, before |-> TextManagerNew(0),
     after |-> TextManagerNew(0)]

Growth(before, after, required) ==
    [did |-> TRUE, required |-> required, before |-> before, after |-> after]

\* charMap.get(c) of the charMap built from a descriptor's chars
CharMapGetIn(font, c) ==
    LET hits == {i \in 1..Len(font.chars) : font.chars[i].char = c}
    IN  IF hits = {} THEN "undefined"
        ELSE font.chars[CHOOSE i \in hits : TRUE]

IsMappedIn(font, c) == \E i \in 1..Len(font.chars) : font.chars[i].char = c

CharMapGet(c) == CharMapGetIn(FontData, c)

IsMapped(c) == IsMappedIn(FontData, c)

\* (u, v, w, h) * (scaleW, scaleH, scaleW, scaleH): the rectangle in texels
UvOf(char) ==
    [u |-> char.x,
     v |-> FontData.common.scaleH - (char.y + char.height),
     w |-> char.width, h |-> char.height]

\* one iteration of the renderGlyphs loop: glyph written to instanceIndex
WriteGlyph(m, instanceIndex, glyph) ==
    LET char == glyph.char
        gScale == glyph.scale
        posX == glyph.x + (char.xoffset + (char.width \div 2)) * gScale
        posY == glyph.y - (char.yoffset + (char.height \div 2)) * gScale
        posZ == glyph.z + 2
        matrix == [position |-> Vec(posX, posY, posZ),
                   scale |-> Vec(char.width * gScale, char.height * gScale,
                                 1),
                   rotation |-> glyph.rotation]
        finalColor == IF glyph.color = "undefined" THEN "0xffffff"
                      ELSE glyph.color
    IN  [m EXCEPT !.instanceMatrix[instanceIndex] = matrix,
                  !.aUvOffset[instanceIndex] = UvOf(char),
                  !.aColor[instanceIndex] = finalColor]

\* a glyph record without a char: destructuring it yields undefined and
\* char.width throws
Malformed(glyph) == "char" \notin DOMAIN glyph

\* the renderGlyphs loop; it ends by setting count, or by the TypeError a
\* malformed glyph raises, which leaves count as it was
RECURSIVE RenderLoop(_, _, _, _)
RenderLoop(m, cap, glyphs, instanceIndex) ==
    IF instanceIndex >= Len(glyphs) \/ instanceIndex >= cap
    THEN [mesh |-> [m EXCEPT !.count = instanceIndex], threw |-> FALSE]
    ELSE IF Malformed(glyphs[instanceIndex + 1])
    THEN [mesh |-> m, threw |-> TRUE]
    ELSE RenderLoop(WriteGlyph(m, instanceIndex, glyphs[instanceIndex + 1]),
                    cap, glyphs, instanceIndex + 1)

\* renderGlyphs(glyphs): the growth comes first, then this.fontData!.common
\* (a TypeError when fontData is null), then the loop
renderGlyphs(tm, glyphs) ==
    LET needs == Len(glyphs) > tm.capacity
        t1 == IF needs THEN grow(tm, Len(glyphs)) ELSE tm
        loop == RenderLoop(t1.mesh, t1.capacity, glyphs, 0)
        g == IF needs THEN Growth(tm, t1, Len(glyphs)) ELSE NoGrowth
    IN  IF tm.fontData = "null"
        THEN [tm |-> t1, grown |-> g, threw |-> TRUE]
        ELSE [tm |-> [t1 EXCEPT !.mesh = loop.mesh], grown |-> g,
              threw |-> loop.threw]

\* the setText loop from character i on
RECURSIVE SetTextLoop(_, _, _, _, _, _)
SetTextLoop(m, text, i, cursorX, cursorY, instanceIndex) ==
    IF i > Len(text) THEN [m EXCEPT !.count = instanceIndex]
    ELSE LET charStr == text[i]
         IN  IF charStr = "\n"
             THEN SetTextLoop(m, text, i + 1, 0,
                              cursorY - FontData.common.lineHeight,
                              instanceIndex)
             ELSE IF ~IsMapped(charStr)
             THEN SetTextLoop(m, text, i + 1,
                              IF charStr = " " THEN cursorX + 30 ELSE cursorX,
                              cursorY, instanceIndex)
             ELSE LET charData == CharMapGet(charStr)
                      x == cursorX + charData.xoffset
                           + (charData.width \div 2)
                      y == cursorY - charData.yoffset
                           - (charData.height \div 2)
                      matrix == [position |-> Vec(x, y, 0),
                                 scale |-> Vec(charData.width,
                                               charData.height, 1),
                                 rotation |-> 0]
                      m1 == [m EXCEPT
                               !.instanceMatrix[instanceIndex] = matrix,
                               !.aUvOffset[instanceIndex] = UvOf(charData),
                               !.aColor[instanceIndex] = "0xffffff"]
                  IN  SetTextLoop(m1, text, i + 1,
                                  cursorX + charData.xadvance, cursorY,
                                  instanceIndex + 1)

\* setText(text): a silent return without fontData; the charMap is filled
\* only by a load that got past the descriptor's validation
setText(tm, text) ==
    LET needs == Len(text) > tm.capacity
        t1 == IF needs THEN grow(tm, Len(text)) ELSE tm
    IN  IF tm.fontData = "null" THEN [tm |-> tm, grown |-> NoGrowth]
        ELSE [tm |-> [t1 EXCEPT !.mesh =
                        IF tm.fontData = "loaded"
                        THEN SetTextLoop(t1.mesh, text, 1, 0, 0, 0)
                        ELSE [t1.mesh EXCEPT !.count = 0]],
              grown |-> IF needs THEN Growth(tm, t1, Len(text))
                        ELSE NoGrowth]

\* clear() that only resets the counter
clearText_NeverShrinks(tm) ==
    [tm EXCEPT !.mesh.count = 0, !.managedObjects = << >>]

\* TextManager.clear()
clearText(tm) ==
    LET initialCapacity == ClearCapacity
    IN  IF tm.capacity > initialCapacity * 2
        THEN [tm EXCEPT !.capacity = initialCapacity,
                        !.mesh = createMesh(initialCapacity),
                        !.managedObjects = << >>]
        ELSE [tm EXCEPT !.mesh.count = 0, !.managedObjects = << >>]

SetTM(t) ==
    /\ capacity' = t.capacity
    /\ mesh' = t.mesh
    /\ growthCount' = t.growthCount
    /\ fontData' = t.fontData
    /\ uMap' = t.uMap
    /\ managedObjects' = t.managedObjects

\* a TextManager call: its name and whether it ended in an exception
TextCall(op, threw) == [op |-> op, threw |-> threw]

\* the load() promise: not started
NotLoading == [pc |-> "idle", result |-> "none"]

\* the load() promise: resolved
Loaded == [pc |-> "idle", result |-> "resolved"]

\* a TextManager just constructed
TextNew(initialCapacity) ==
    /\ capacity = TextManagerNew(initialCapacity).capacity
    /\ mesh = TextManagerNew(initialCapacity).mesh
    /\ growthCount = TextManagerNew(initialCapacity).growthCount
    /\ grown = NoGrowth
    /\ fontData = TextManagerNew(initialCapacity).fontData
    /\ uMap = TextManagerNew(initialCapacity).uMap
    /\ managedObjects = TextManagerNew(initialCapacity).managedObjects
    /\ loading = NotLoading
    /\ textCall = TextCall("new", FALSE)

\* a TextManager constructed and loaded
TextInit(initialCapacity) ==
    /\ capacity = TextManagerNew(initialCapacity).capacity
    /\ mesh = TextManagerNew(initialCapacity).mesh
    /\ growthCount = TextManagerNew(initialCapacity).growthCount
    /\ grown = NoGrowth
    /\ fontData = "loaded"
    /\ uMap = "texture"
    /\ managedObjects = TextManagerNew(initialCapacity).managedObjects
    /\ loading = Loaded
    /\ textCall = TextCall("load", FALSE)

-----------------------------------------------------------------------------
(* TextArea *)

\* an optional field: absent, or present with a value
None == << >>
Some(v) == <<v>>

\* a TextStyle; every field but start and end is optional
TextStyle(start, end, color, rotation, scale, offsetX, offsetY) ==
    [start |-> start, end |-> end, color |-> color, rotation |-> rotation,
     scale |-> scale, offsetX |-> offsetX, offsetY |-> offsetY]

isWhitespace(char) == char = " " \/ char = "\t"

\* the getTokenWidth loop from index i on (i counts from 0)
RECURSIVE TokenLoop(_, _, _, _)
TokenLoop(a, text, i, startIsWhitespace) ==
    IF i >= Len(text) THEN 0
    ELSE LET char == text[i + 1]
         IN  IF char = "\n" \/ isWhitespace(char) # startIsWhitespace THEN 0
             ELSE (IF IsMappedIn(a.fontData, char)
                   THEN CharMapGetIn(a.fontData, char).xadvance ELSE 0)
                  + TokenLoop(a, text, i + 1, startIsWhitespace)

getTokenWidth(a, text, startIndex) ==
    TokenLoop(a, text, startIndex, isWhitespace(text[startIndex + 1]))

\* the token wrap taken also by a token that exactly fits
tokenOverflows_Inclusive(cursorX, tokenWidth, width) ==
    cursorX + tokenWidth >= width

\* the condition of the token wrap
tokenOverflows(cursorX, tokenWidth, width) == cursorX + tokenWidth > width

\* the updateCaret helper of computeLayout
updateCaret(st, a, index, x, y) ==
    IF index = a.caretIndex
    THEN [st EXCEPT !.lastCaretPos = [x |-> x, y |-> y]]
    ELSE st

\* the range test of a style with its end included
covers_Inclusive(style, i) == i >= style.start /\ i <= style.end

\* the range test of a style: start <= i < end
covers(style, i) == i >= style.start /\ i < style.end

\* the styles loop: every style covering i overwrites the fields it defines
RECURSIVE StyleLoop(_, _, _, _)
StyleLoop(styles, sIdx, i, acc) ==
    IF sIdx > Len(styles) THEN acc
    ELSE LET style == styles[sIdx]
             next ==
                 IF covers(style, i)
                 THEN [charColor |-> IF style.color # None
                                     THEN style.color[1] ELSE acc.charColor,
                       rotation |-> IF style.rotation # None
                                    THEN style.rotation[1] ELSE acc.rotation,
                       scale |-> IF style.scale # None
                                 THEN style.scale[1] ELSE acc.scale,
                       offX |-> IF style.offsetX # None
                                THEN style.offsetX[1] ELSE acc.offX,
                       offY |-> IF style.offsetY # None
                                THEN style.offsetY[1] ELSE acc.offY]
                 ELSE acc
         IN  StyleLoop(styles, sIdx + 1, i, next)

\* the attributes of the glyph at index i
GlyphStyle(a, isPlaceholder, i) ==
    LET base == [charColor |-> IF isPlaceholder THEN a.placeholderColor
                               ELSE a.defaultColor,
                 rotation |-> 0, scale |-> 1, offX |-> 0, offY |-> 0]
        hasStyles == ~isPlaceholder /\ Len(a.styles) > 0
    IN  IF hasStyles THEN StyleLoop(a.styles, 1, i, base) ELSE base

\* the loop condition  i <= text.length  omitting the end-of-text pass
LoopContinues_Exclusive(i, length) == i < length

\* the loop condition  i <= text.length
LoopContinues(i, length) == i <= length

\* the character-level wrap never taken
charWrap_Never(wordWrap, cursorX, xadvance, width) == FALSE

\* the condition of the character-level wrap
charWrap(wordWrap, cursorX, xadvance, width) ==
    wordWrap /\ cursorX > 0 /\ cursorX + xadvance > width

\* the entry of a character-wrapped index left on the line it came from
readjustEntry_Kept(visualMap, i, x, y) == visualMap

\* the last entry of the position index moved to the line its character was
\* wrapped to
readjustEntry(visualMap, i, x, y) ==
    [visualMap EXCEPT ![Len(visualMap)] = [index |-> i, x |-> x, y |-> y]]

\* the vertical bounds test with the boundary line left out
withinBounds_Strict(cursorY, height) == Abs(cursorY) < height

\* the vertical bounds test: only lines with |cursorY| <= height emit glyphs
withinBounds(cursorY, height) == Abs(cursorY) <= height

\* the cursor advance displaced by the style offset
advanceCursor_WithOffset(cursorX, xadvance, offX) == cursorX + xadvance + offX

\* cursorX += charData.xadvance (the style offset plays no part)
advanceCursor(cursorX, xadvance, offX) == cursorX + xadvance

\* the position index kept from the previous call
initialVisualMap_Kept(a) == a.visualMap

\* this.visualMap = [] at the start of computeLayout
initialVisualMap(a) == << >>

\* the computeLayout loop from index i on; st holds cursorX, cursorY,
\* glyphs, visualMap and lastCaretPos.  A glyph carries the index of its
\* character in `index` (an observation; the program's glyph has no such
\* field).
RECURSIVE LayoutLoop(_, _, _, _, _)
LayoutLoop(a, text, isPlaceholder, st, i) ==
    IF ~LoopContinues(i, Len(text)) THEN st
    ELSE
    LET baseLineHeight == a.fontData.common.lineHeight * a.lineSpacing
        isAtEnd == i = Len(text)
        char == IF isAtEnd THEN "undefined" ELSE text[i + 1]
        tokenWraps ==
            /\ ~isAtEnd /\ a.wordWrap /\ st.cursorX > 0 /\ char # "\n"
            /\ (i = 0 \/ isWhitespace(text[i]) # isWhitespace(char))
            /\ tokenOverflows(st.cursorX, getTokenWidth(a, text, i), a.width)
        s1 == IF tokenWraps
              THEN [st EXCEPT !.cursorX = 0,
                              !.cursorY = @ - baseLineHeight]
              ELSE st
        s2 == updateCaret(
                [s1 EXCEPT !.visualMap =
                    Append(@, [index |-> i, x |-> s1.cursorX,
                               y |-> s1.cursorY])],
                a, i, s1.cursorX, s1.cursorY)
    IN  IF isAtEnd THEN s2
        ELSE IF char = "\n"
        THEN CHOOSE r \in
                 {LayoutLoop(a, text, isPlaceholder, s, i + 1) :
                    s \in {[s2 EXCEPT !.cursorX = 0,
                                      !.cursorY = @ - baseLineHeight]}} : TRUE
        ELSE IF ~IsMappedIn(a.fontData, char)
        THEN CHOOSE r \in
                 {LayoutLoop(a, text, isPlaceholder, s, i + 1) :
                    s \in {s2}} : TRUE
        ELSE
        LET charData == CharMapGetIn(a.fontData, char)
            newY == s2.cursorY - baseLineHeight
            s3 == IF charWrap(a.wordWrap, s2.cursorX, charData.xadvance,
                              a.width)
                  THEN updateCaret(
                         [s2 EXCEPT !.cursorX = 0, !.cursorY = newY,
                                    !.visualMap =
                                        readjustEntry(@, i, 0, newY)],
                         a, i, 0, newY)
                  ELSE s2
            sty == GlyphStyle(a, isPlaceholder, i)
            glyph == [char |-> charData,
                      x |-> s3.cursorX + sty.offX,
                      y |-> s3.cursorY + sty.offY,
                      color |-> sty.charColor,
                      rotation |-> sty.rotation,
                      scale |-> sty.scale,
                      index |-> i]
            s4 == IF withinBounds(s3.cursorY, a.height)
                  THEN [s3 EXCEPT !.glyphs = Append(@, glyph)]
                  ELSE s3
        IN  CHOOSE r \in
                {LayoutLoop(a, text, isPlaceholder, s, i + 1) :
                   s \in {[s4 EXCEPT !.cursorX =
                             advanceCursor(@, charData.xadvance, sty.offX)]}} :
                TRUE

\* the string computeLayout lays out
LaidOutText(a) ==
    IF Len(a.text) = 0 /\ Len(a.placeholder) > 0 THEN a.placeholder
    ELSE a.text

\* TextArea.computeLayout(): the area after the call and the glyphs returned
computeLayout(a) ==
    LET isPlaceholder == Len(a.text) = 0 /\ Len(a.placeholder) > 0
        text == LaidOutText(a)
        st == LayoutLoop(a, text, isPlaceholder,
                         [cursorX |-> 0, cursorY |-> 0, glyphs |-> << >>,
                          visualMap |-> initialVisualMap(a),
                          lastCaretPos |-> a.lastCaretPos], 0)
    IN  [area |-> [a EXCEPT !.visualMap = st.visualMap,
                            !.lastCaretPos = st.lastCaretPos],
         glyphs |-> st.glyphs]

\* the loops of getContentHeight / getContentWidth over visualMap[k..]
RECURSIVE MinYLoop(_, _, _)
MinYLoop(visualMap, k, minY) ==
    IF k > Len(visualMap) THEN minY
    ELSE MinYLoop(visualMap, k + 1, Min(minY, visualMap[k].y))

RECURSIVE MaxXLoop(_, _, _)
MaxXLoop(visualMap, k, maxX) ==
    IF k > Len(visualMap) THEN maxX
    ELSE MaxXLoop(visualMap, k + 1, Max(maxX, visualMap[k].x))

\* TextArea.getContentHeight()
getContentHeight(a) ==
    IF Len(a.visualMap) = 0 THEN 0
    ELSE Abs(MinYLoop(a.visualMap, 1, 0))
            + a.fontData.common.lineHeight * a.lineSpacing

\* getContentWidth leaving the end-of-text entry out
getContentWidth_SkipEnd(a) ==
    IF Len(a.visualMap) = 0 THEN 0
    ELSE MaxXLoop(SubSeq(a.visualMap, 1, Len(a.visualMap) - 1), 1, 0)

\* TextArea.getContentWidth()
getContentWidth(a) ==
    IF Len(a.visualMap) = 0 THEN 0
    ELSE MaxXLoop(a.visualMap, 1, 0)

\* the extent getLayout gives an area it measures: 999999 font units
AutoFitExtent == 999999

\* the size test of getLayout replaced by an unconditional assignment
grows_Always(current, target) == TRUE

\* getLayout assigns the fitted size only over a smaller one
grows(current, target) == current < target

\* getLayout, the auto width check and the widths handed to the areas
fitWidth(b, nb) ==
    CHOOSE out \in
        {[bm |-> g.bm,
          nb |-> [g.nb EXCEPT
                     !.titleArea =
                         [(IF nb.autoWidth
                           THEN [measured EXCEPT
                                    !.wordWrap = nb.titleArea.wordWrap]
                           ELSE nb.titleArea) EXCEPT
                             !.width = g.nb.width - 50,
                             !.height = g.nb.headerHeight - 10],
                     !.bodyArea.width = g.nb.width - 50]] :
         measured \in
            {computeLayout(t).area :
                t \in {[nb.titleArea EXCEPT !.wordWrap = FALSE,
                                            !.width = AutoFitExtent]}},
         g \in
            {IF nb.autoWidth /\ grows(nb.width, targetW)
             THEN updateGeometry(b, [nb EXCEPT !.width = targetW])
             ELSE [bm |-> b, nb |-> nb] :
                targetW \in
                   {Max(nb.minWidth, getContentWidth(m) + 100) :
                       m \in {computeLayout(t).area :
                                t \in {[nb.titleArea EXCEPT
                                           !.wordWrap = FALSE,
                                           !.width = AutoFitExtent]}}}}} : TRUE

\* getLayout, the body pass: with autoHeight a layout of unbounded height
\* and the height check, else a layout clipped to the body rectangle
fitHeight(b, nb) ==
    IF nb.autoHeight
    THEN CHOOSE out \in
            {[bm |-> g.bm, nb |-> g.nb, bodyGlyphsLocal |-> r.glyphs] :
             r \in {computeLayout(a) :
                       a \in {[nb.bodyArea EXCEPT
                                  !.height = AutoFitExtent]}},
             g \in
                {IF grows(nb.height, targetH.h)
                 THEN updateGeometry(b, [nb EXCEPT !.bodyArea = targetH.area,
                                                   !.height = targetH.h])
                 ELSE [bm |-> b, nb |-> [nb EXCEPT !.bodyArea = targetH.area]] :
                    targetH \in
                       {[h |-> Max(200, getContentHeight(l.area)
                                           + nb.headerHeight + 50),
                         area |-> l.area] :
                           l \in {computeLayout(a) :
                                     a \in {[nb.bodyArea EXCEPT
                                                !.height = AutoFitExtent]}}}}} :
            TRUE
    ELSE CHOOSE out \in
            {[bm |-> b, nb |-> [nb EXCEPT !.bodyArea = r.area],
              bodyGlyphsLocal |-> r.glyphs] :
             r \in {computeLayout(a) :
                       a \in {[nb.bodyArea EXCEPT !.height =
                                  nb.height - nb.headerHeight - 50]}}} : TRUE

\* the glyphs of an area of the NoteBox moved to world space; the area sits
\* at local (0.25, dy, 0)
toWorld(localGlyphs, position, dy) ==
    [k \in 1..Len(localGlyphs) |->
        [char |-> localGlyphs[k].char,
         x |-> localGlyphs[k].x + position.x + 25,
         y |-> localGlyphs[k].y + position.y + dy,
         z |-> position.z,
         color |-> localGlyphs[k].color,
         rotation |-> 0 + localGlyphs[k].rotation,
         scale |-> localGlyphs[k].scale,
         index |-> localGlyphs[k].index]]

\* NoteBox.getLayout(textScale): the BoxManager and the NoteBox after the
\* call and the glyphs returned, title first
getLayout(b, nb) ==
    CHOOSE out \in
        {LET t == CHOOSE l \in
                     {computeLayout(a) : a \in {h.nb.titleArea}} : TRUE
             titleVertOffset ==
                 (h.nb.headerHeight - h.nb.titleArea.fontData.common.lineHeight)
                     \div 2
         IN  [bm |-> h.bm,
              nb |-> [h.nb EXCEPT !.titleArea = t.area],
              glyphs |->
                 toWorld(t.glyphs, h.nb.position, -titleVertOffset)
                 \o toWorld(h.bodyGlyphsLocal, h.nb.position,
                            -h.nb.headerHeight - 20)] :
         h \in {fitHeight(w.bm, w.nb) : w \in {fitWidth(b, nb)}}} : TRUE

\* the weight of the vertical distance in getIndexAtPos
yWeight == 10

\* the squared distance getIndexAtPos minimises
DistSq(entry, x, y) ==
    (x - entry.x) * (x - entry.x)
        + ((y - entry.y) * yWeight) * ((y - entry.y) * yWeight)

\* the comparison of getIndexAtPos letting a later entry win a tie
closer_OrEqual(distSq, minDistSq) == distSq <= minDistSq

\* the comparison of getIndexAtPos: only a strictly nearer entry replaces
\* the best one
closer(distSq, minDistSq) == distSq < minDistSq

\* the loop of getIndexAtPos over visualMap[k..]; minDistSq = -1 stands for
\* Infinity
RECURSIVE IndexLoop(_, _, _, _, _, _)
IndexLoop(visualMap, k, x, y, bestIdx, minDistSq) ==
    IF k > Len(visualMap) THEN bestIdx
    ELSE LET distSq == DistSq(visualMap[k], x, y)
         IN  IF minDistSq = -1 \/ closer(distSq, minDistSq)
             THEN IndexLoop(visualMap, k + 1, x, y, visualMap[k].index, distSq)
             ELSE IndexLoop(visualMap, k + 1, x, y, bestIdx, minDistSq)

\* getIndexAtPos without the final Math.min
getIndexAtPos_Unclamped(a, x, y) ==
    IF Len(a.visualMap) = 0 THEN 0
    ELSE IndexLoop(a.visualMap, 1, x, y, 0, -1)

\* TextArea.getIndexAtPos(x, y)
getIndexAtPos(a, x, y) ==
    IF Len(a.visualMap) = 0 THEN 0
    ELSE Min(Len(a.text), IndexLoop(a.visualMap, 1, x, y, 0, -1))

\* the y moveCaretVertical(direction) aims at
targetY(a, direction) ==
    a.lastCaretPos.y
        - direction * (a.fontData.common.lineHeight * a.lineSpacing)

\* TextArea.moveCaretVertical(direction): the area after the call
moveCaretVertical(a, direction) ==
    IF Len(a.visualMap) = 0 THEN a
    ELSE [a EXCEPT !.caretIndex =
              getIndexAtPos(a, a.lastCaretPos.x, targetY(a, direction))]

\* the Delete key of the editor on the area: the character at the caret goes
deleteKey(a) ==
    IF a.caretIndex < Len(a.text)
    THEN [a EXCEPT !.text = SubSeq(a.text, 1, a.caretIndex)
                              \o SubSeq(a.text, a.caretIndex + 2, Len(a.text))]
    ELSE a

AreaCall(op, x, y, ret) == [op |-> op, x |-> x, y |-> y, ret |-> ret]

EditorCall(op, key, target, requestedFor) ==
    [op |-> op, key |-> key, target |-> target, requestedFor |-> requestedFor]

\* a TextEditor as constructed, with no TextArea to focus
EditorIdle ==
    /\ activeArea = 0
    /\ isFocused = FALSE
    /\ editAreas = << >>
    /\ clipboard = << >>
    /\ notified = [before |-> << >>, events |-> << >>]
    /\ editorCall = EditorCall("new", "", 0, 0)

\* no TextArea call has been made
AreaIdle ==
    /\ area = TextAreaNew
    /\ areaGlyphs = << >>
    /\ areaCall = AreaCall("new", 0, 0, 0)
    /\ EditorIdle

-----------------------------------------------------------------------------
(* TextManager: managed objects, update, factories, load *)

\* the standalone TextAreas of a scene, by identity
AreaNames == {101, 102}

\* the TextArea object o: its text and where it stands
ManagedArea(o) ==
    IF o = 101
    THEN [area |-> [TextAreaNew EXCEPT !.text = <<"a">>],
          position |-> Vec(0, 0, 0)]
    ELSE [area |-> [TextAreaNew EXCEPT !.text = <<"W", "\n", "a">>],
          position |-> Vec(300, -200, 10)]

\* TextArea.getWorldLayout(textScale): the local layout moved by the
\* object's world matrix (a translation here)
getWorldLayout(a, position) ==
    CHOOSE world \in
        {[k \in 1..Len(localGlyphs) |->
            [char |-> localGlyphs[k].char,
             x |-> localGlyphs[k].x + position.x,
             y |-> localGlyphs[k].y + position.y,
             z |-> position.z,
             color |-> localGlyphs[k].color,
             rotation |-> 0 + localGlyphs[k].rotation,
             scale |-> localGlyphs[k].scale,
             index |-> localGlyphs[k].index]] :
         localGlyphs \in {computeLayout(a).glyphs}} : TRUE

\* what a managed object hands to update(): a TextArea its world layout, a
\* NoteBox (any other identity) the layout of its empty title and body
ObjectLayout(o) ==
    IF o \in AreaNames
    THEN getWorldLayout(ManagedArea(o).area, ManagedArea(o).position)
    ELSE << >>

\* the allLayouts array update() builds, in the Set's insertion order
RECURSIVE AllLayouts(_)
AllLayouts(objects) ==
    IF objects = << >> THEN << >>
    ELSE ObjectLayout(Head(objects)) \o AllLayouts(Tail(objects))

InSeq(x, seq) == \E k \in 1..Len(seq) : seq[k] = x

\* Set.add
add(tm, object) ==
    IF InSeq(object, tm.managedObjects) THEN tm
    ELSE [tm EXCEPT !.managedObjects = Append(@, object)]

\* Set.delete
RECURSIVE Without(_, _)
Without(seq, x) ==
    IF seq = << >> THEN << >>
    ELSE IF Head(seq) = x THEN Without(Tail(seq), x)
    ELSE <<Head(seq)>> \o Without(Tail(seq), x)

remove(tm, object) == [tm EXCEPT !.managedObjects = Without(@, object)]

\* update() that appends to last frame's instances
update_Appending(tm) ==
    IF tm.fontData = "null"
    THEN [tm |-> tm, grown |-> NoGrowth, threw |-> FALSE]
    ELSE CHOOSE r \in
            {[renderGlyphs(tm, allLayouts) EXCEPT !.tm.mesh.count =
                 tm.mesh.count + Len(allLayouts)] :
             allLayouts \in {AllLayouts(tm.managedObjects)}} : TRUE

\* TextManager.update()
update(tm) ==
    IF tm.fontData = "null"
    THEN [tm |-> tm, grown |-> NoGrowth, threw |-> FALSE]
    ELSE CHOOSE r \in
            {renderGlyphs(tm, allLayouts) :
             allLayouts \in {AllLayouts(tm.managedObjects)}} : TRUE

\* createTextArea(text, x, y, z): throws without fontData; new TextArea
\* throws on a descriptor without chars
createTextArea(tm, o) ==
    IF tm.fontData # "loaded" THEN [tm |-> tm, threw |-> TRUE]
    ELSE [tm |-> add(tm, o), threw |-> FALSE]

\* whether createNoteBox / new NoteBox throws: no fontData, or the TextArea
\* constructor on a descriptor without chars
createNoteBoxThrows(tm) == tm.fontData # "loaded"

\* what the fetch of load() can come to
FetchOutcomes == {"failed", "nochars", "ok"}

\* load() resumed after the fetch: fontData is assigned, then validated
loadFetched(tm, outcome) ==
    IF outcome = "failed"
    THEN [tm |-> tm, loading |-> [pc |-> "idle", result |-> "rejected"]]
    ELSE IF outcome = "nochars"
    THEN [tm |-> [tm EXCEPT !.fontData = "nochars"],
          loading |-> [pc |-> "idle", result |-> "rejected"]]
    ELSE [tm |-> [tm EXCEPT !.fontData = "loaded"],
          loading |-> [pc |-> "texture", result |-> "none"]]

\* load() resumed after loadAsync(textureUrl)
loadTextured(tm, ok) ==
    IF ok
    THEN [tm |-> [tm EXCEPT !.uMap = "texture"],
          loading |-> [pc |-> "idle", result |-> "resolved"]]
    ELSE [tm |-> tm, loading |-> [pc |-> "idle", result |-> "rejected"]]

-----------------------------------------------------------------------------
(* Actions on the rectangle pool *)

\* live: whether the id passed was a live id when the call was made
Call(op, id, ret, box, part) ==
    [op |-> op, id |-> id, ret |-> ret, box |-> box, part |-> part,
     live |-> id \in DOMAIN idToIndex]

\* the ids a model run passes to removeBox / updateBox: live ones, ones
\* already removed, ones never issued, and the -1 sentinel
AnyId == -1..MaxIds

\* boxManager.addBox(...) called directly
AddBox ==
    \E a \in BoxArgs :
        /\ idCounter < MaxIds
        /\ LET r == addBox(BM, a)
           IN  /\ SetBM(r.bm)
               /\ lastCall' = Call("addBox", -1, r.ret, 0, "null")
               /\ issued' = issued \cup ({r.ret} \ {-1})
        /\ UNCHANGED noteBoxMap
        /\ UNCHANGED <<textVars, areaVars>>

\* boxManager.removeBox(id) called directly, with any id
RemoveBox ==
    \E id \in AnyId :
        /\ SetBM(removeBox(BM, id))
        /\ lastCall' = Call("removeBox", id, -1, 0, "null")
        /\ UNCHANGED <<noteBoxMap, issued>>
        /\ UNCHANGED <<textVars, areaVars>>

\* boxManager.updateBox(id, ...) called directly, with any id
UpdateBox ==
    \E id \in AnyId, a \in BoxArgs :
        /\ SetBM(updateBox(BM, id, a))
        /\ lastCall' = Call("updateBox", id, -1, 0, "null")
        /\ UNCHANGED <<noteBoxMap, issued>>
        /\ UNCHANGED <<textVars, areaVars>>

\* clearScene: boxManager.clear() and noteBoxMap.clear()
Clear ==
    /\ SetBM(clear(BM))
    /\ noteBoxMap' = << >>
    /\ lastCall' = Call("clear", -1, -1, 0, "null")
    /\ UNCHANGED issued
    /\ UNCHANGED <<textVars, areaVars>>

BoxInit ==
    /\ SetBMInit(BoxManagerNew(MaxBoxes))
    /\ noteBoxMap = << >>
    /\ lastCall = Call("new", -1, -1, 0, "null")
    /\ issued = {}
    /\ TextInit(1)
    /\ AreaIdle

BoxNext ==
    \/ AddBox
    \/ RemoveBox
    \/ UpdateBox
    \/ Clear

\* a BoxManager driven directly through addBox, removeBox, updateBox, clear
SpecBox == BoxInit /\ [][BoxNext]_vars

-----------------------------------------------------------------------------
(* Actions of NoteBoxes and of the InteractionHandler *)

\* logical ids handed out before the model stops constructing NoteBoxes
MaxNoteIds == 3 * MaxNoteBoxes + MaxIds

Names(map) == {map[i].name : i \in 1..Len(map)}

\* new NoteBox(textManager, boxManager, name), registered in noteBoxMap
NewNoteBox ==
    \E name \in 1..MaxNoteBoxes :
        /\ name \notin Names(noteBoxMap)
        /\ idCounter + 3 <= MaxNoteIds
        /\ LET r == NoteBoxNew(BM, name)
           IN  /\ SetBM(r.bm)
               /\ noteBoxMap' = Append(noteBoxMap, r.nb)
               /\ issued' = issued \cup ({r.nb.headerId, r.nb.bodyId,
                                          r.nb.resizeHandleId} \ {-1})
        /\ lastCall' = Call("NoteBox", -1, -1, name, "null")
        /\ managedObjects' =
              add(TM, NoteBoxNew(BM, name).nb.headerId).managedObjects
        /\ UNCHANGED <<textRest, areaVars>>

\* noteBox.dispose(), the caller dropping the box from noteBoxMap
DisposeNoteBox ==
    \E i \in 1..Len(noteBoxMap) :
        /\ SetBM(dispose(BM, noteBoxMap[i]))
        /\ noteBoxMap' = SubSeq(noteBoxMap, 1, i - 1)
                         \o SubSeq(noteBoxMap, i + 1, Len(noteBoxMap))
        /\ lastCall' = Call("dispose", -1, -1, noteBoxMap[i].name, "null")
        /\ UNCHANGED issued
        /\ UNCHANGED <<textVars, areaVars>>

\* mousedown: the raycast hits the mesh instance in physical slot s, so
\* hit.instanceId = s; the handler looks the owner up with getPart and
\* brings it to the front
Pick ==
    \E s \in 0..(meshCount - 1) :
        LET instanceId == s
            hit == HitBox(noteBoxMap, instanceId)
        IN  IF hit # 0
            THEN LET hitBox == noteBoxMap[hit]
                     r == bringToFront(BM, noteBoxMap, hitBox.name)
                 IN  /\ SetBM(r.bm)
                     /\ noteBoxMap' = r.map
                     /\ lastCall' = Call("pick", s, -1, hitBox.name,
                                         getPart(hitBox, instanceId))
                     /\ UNCHANGED issued
                     /\ UNCHANGED <<textVars, areaVars>>
            ELSE /\ lastCall' = Call("pick", s, -1, 0, "null")
                 /\ UNCHANGED <<maxBoxes, instances, idCounter, idToIndex,
                                meshCount, meshData, noteBoxMap, issued>>
                 /\ UNCHANGED <<textVars, areaVars>>

\* the pool has room for the rectangles of every NoteBox
NoteInit ==
    /\ SetBMInit(BoxManagerNew(3 * MaxNoteBoxes))
    /\ noteBoxMap = << >>
    /\ lastCall = Call("new", -1, -1, 0, "null")
    /\ issued = {}
    /\ TextInit(1)
    /\ AreaIdle

NoteNext ==
    \/ NewNoteBox
    \/ DisposeNoteBox
    \/ Pick

\* NoteBox constructions, dispose() calls and picks
SpecNote == NoteInit /\ [][NoteNext]_vars

-----------------------------------------------------------------------------
(* Properties of the rectangle pool *)

liveCount == Len(instances)

LiveIds == DOMAIN idToIndex

IdAt(slot) == instances[slot + 1].logicalId

\* the state of the BoxManager the claims speak about
poolVars == <<instances, idCounter, idToIndex, meshCount, meshData>>

\* C1: the live logical ids map one-to-one onto the physical slots
\* 0..liveCount-1: every live id's slot is below liveCount, no two live ids
\* share a slot, and the record at an id's slot carries that id.
C1_StableIdInvariant ==
    /\ \A id \in LiveIds :
          /\ idToIndex[id] \in 0..(liveCount - 1)
          /\ IdAt(idToIndex[id]) = id
    /\ \A id1, id2 \in LiveIds : id1 # id2 => idToIndex[id1] # idToIndex[id2]
    /\ \A slot \in 0..(liveCount - 1) : IdAt(slot) \in LiveIds

\* a removal has moved a record: some live id sits in a slot other than the
\* one it was added at
C1_Witness ==
    /\ lastCall.op = "removeBox"
    /\ liveCount >= 2
    /\ \E id \in LiveIds : idToIndex[id] = 0 /\ id # 0 /\ 0 \in issued

\* C2: no logical id is handed out twice by addBox over the lifetime of a
\* BoxManager, clear() included.
C2_IdsNeverReused ==
    [][(lastCall'.op = "addBox" /\ lastCall'.ret # -1)
          => lastCall'.ret \notin issued]_vars

\* C7: removeBox(id) of a live id shrinks liveCount by one and forgets id;
\* unless the record was in the last live slot, the last record moves into
\* the freed slot and its id is remapped there; every other live id keeps
\* its slot and its record.
C7_RemoveSwapsLast ==
    [][(lastCall'.op = "removeBox" /\ lastCall'.live)
          => LET id == lastCall'.id
                 slot == idToIndex[id]
                 last == liveCount - 1
                 moved == IdAt(last)
             IN  /\ Len(instances') = liveCount - 1
                 /\ id \notin DOMAIN idToIndex'
                 /\ slot # last =>
                       /\ instances'[slot + 1] = instances[last + 1]
                       /\ idToIndex'[moved] = slot
                 /\ \A other \in LiveIds \ {id, moved} :
                       /\ other \in DOMAIN idToIndex'
                       /\ idToIndex'[other] = idToIndex[other]
                       /\ instances'[idToIndex'[other] + 1]
                             = instances[idToIndex[other] + 1]
                 /\ DOMAIN idToIndex' = LiveIds \ {id}]_vars

\* ids 0, 1, 2 were inserted and 1 removed: two records remain, id 2 in the
\* slot id 1 had, id 0 where it was
C7_Witness ==
    /\ lastCall.op = "removeBox" /\ lastCall.id = 1 /\ lastCall.live
    /\ liveCount = 2
    /\ LiveIds = {0, 2}
    /\ idToIndex[0] = 0 /\ idToIndex[2] = 1

\* C8: addBox on a pool that already holds maxBoxes rectangles returns -1
\* and changes nothing; liveCount never exceeds maxBoxes.
C8_FullPoolRejects ==
    /\ liveCount <= maxBoxes
    /\ [][/\ Len(instances') <= maxBoxes'
          /\ (lastCall'.op = "addBox" /\ liveCount >= maxBoxes)
                => /\ lastCall'.ret = -1
                   /\ UNCHANGED poolVars]_vars

\* addBox was refused on a full pool
C8_Witness ==
    /\ lastCall.op = "addBox" /\ lastCall.ret = -1
    /\ liveCount = maxBoxes

\* C9: removeBox and updateBox with an id that is not live change nothing.
C9_UnknownIdNoOp ==
    [][(lastCall'.op \in {"removeBox", "updateBox"} /\ ~lastCall'.live)
          => UNCHANGED poolVars]_vars

\* a second removeBox of an id that was issued and already removed, with
\* other rectangles still live
C9_Witness ==
    /\ lastCall.op = "removeBox" /\ ~lastCall.live
    /\ lastCall.id \in issued
    /\ liveCount > 0

\* C3: a pick resolves to the NoteBox and part that own the rectangle hit.
\* The raycast hit the rectangle stored in slot lastCall.id; its owner is
\* the NoteBox one of whose part ids is that rectangle's logical id.
C3_PickResolvesOwner ==
    lastCall.op = "pick" =>
        LET id == IdAt(lastCall.id)
        IN  \A i \in 1..Len(noteBoxMap) :
                getPart(noteBoxMap[i], id) # "null" =>
                    /\ lastCall.box = noteBoxMap[i].name
                    /\ lastCall.part = getPart(noteBoxMap[i], id)

-----------------------------------------------------------------------------
(* Actions on the glyph pool *)

\* glyphs uploaded in one call
MaxGlyphs == 15

\* the initialCapacity values a TextManager is constructed with
InitialCapacities == {2, 10, 2 * ClearCapacity + 1}

\* the sizes of the uploads: none, one, a few, the largest
UploadSizes == {0, 1, 3, MaxGlyphs}

\* a list of n placed glyphs, as TextArea.getWorldLayout produces them
GlyphList(n, seed) ==
    [i \in 1..n |->
        [char |-> FontData.chars[((i + seed) % 2) + 1],
         x |-> 24 * (i - 1), y |-> -FontData.common.lineHeight * seed,
         z |-> 0, scale |-> 1 + seed, rotation |-> 0,
         color |-> IF seed = 0 THEN "undefined" ELSE "0x00ff00"]]

\* a text of n characters: glyphs, a space, an unmapped one, a newline
TextOf(n) ==
    [i \in 1..n |->
        IF i % 5 = 0 THEN "\n" ELSE IF i % 5 = 1 THEN "a"
        ELSE IF i % 5 = 2 THEN " " ELSE IF i % 5 = 3 THEN "?" ELSE "W"]

RenderGlyphs ==
    \E n \in UploadSizes, seed \in 0..1 :
        LET r == renderGlyphs(TM, GlyphList(n, seed))
        IN  /\ SetTM(r.tm)
            /\ grown' = r.grown
            /\ textCall' = TextCall("renderGlyphs", r.threw)
            /\ UNCHANGED <<loading, boxVars, areaVars>>

SetText ==
    \E n \in UploadSizes :
        LET r == setText(TM, TextOf(n))
        IN  /\ SetTM(r.tm)
            /\ grown' = r.grown
            /\ textCall' = TextCall("setText", FALSE)
            /\ UNCHANGED <<loading, boxVars, areaVars>>

ClearText ==
    /\ SetTM(clearText(TM))
    /\ grown' = NoGrowth
    /\ textCall' = TextCall("clear", FALSE)
    /\ UNCHANGED <<loading, boxVars, areaVars>>

BoxIdle ==
    /\ SetBMInit(BoxManagerNew(0))
    /\ noteBoxMap = << >>
    /\ lastCall = [op |-> "new", id |-> -1, ret |-> -1, box |-> 0,
                   part |-> "null", live |-> FALSE]
    /\ issued = {}

PoolInit ==
    /\ \E c \in InitialCapacities : TextInit(c)
    /\ BoxIdle
    /\ AreaIdle

PoolNext ==
    \/ RenderGlyphs
    \/ SetText
    \/ ClearText

\* a loaded TextManager driven through renderGlyphs, setText and clear
SpecPool == PoolInit /\ [][PoolNext]_vars

-----------------------------------------------------------------------------
(* Properties of the glyph pool *)

\* C4: a growth leaves liveCount unchanged and every live slot's matrix,
\* UV rectangle and color as they were.
C4_GrowthPreservesData ==
    grown.did =>
        /\ grown.after.mesh.count = grown.before.mesh.count
        /\ grown.after.capacity >= grown.before.capacity
        /\ \A i \in 0..(grown.before.mesh.count - 1) :
              /\ grown.after.mesh.instanceMatrix[i]
                    = grown.before.mesh.instanceMatrix[i]
              /\ grown.after.mesh.aUvOffset[i]
                    = grown.before.mesh.aUvOffset[i]
              /\ grown.after.mesh.aColor[i] = grown.before.mesh.aColor[i]

\* a pool holding live glyphs has grown
C4_Witness ==
    /\ grown.did
    /\ grown.before.mesh.count >= 2
    /\ grown.before.mesh.aColor[1] # ZeroColor

\* C10: a growth for `required` instances allocates
\* max(required + min(ceil(required * 0.2), 10000), required + 500); a pool
\* of capacity 10 asked to hold 15 records ends with capacity >= 515.
C10_GrowthPolicy ==
    grown.did =>
        /\ grown.after.capacity
              = Max(grown.required + Min(CeilFifth(grown.required), 10000),
                    grown.required + 500)
        /\ (grown.before.capacity = 10 /\ grown.required = 15)
              => capacity >= 515

-----------------------------------------------------------------------------
(* TextArea layout *)

\* characters of a text
MaxLen == 3

\* a glyph, a wide glyph, a space, a newline, a character the font lacks
Alphabet == {"a", "W", " ", "\n", "?"}

Texts == UNION {[1..n -> Alphabet] : n \in 0..MaxLen}

WidestAdvance ==
    CHOOSE w \in {FontData.chars[k].xadvance : k \in 1..Len(FontData.chars)} :
        \A k \in 1..Len(FontData.chars) : FontData.chars[k].xadvance <= w

\* narrower than a glyph, exactly the widest glyph, two glyphs, the default
Widths == {WidestAdvance - 10, WidestAdvance, 50, TextAreaNew.width}

\* a single line, the default
Heights == {FontData.common.lineHeight, TextAreaNew.height}

StyleLists ==
    {<< >>,
     <<TextStyle(0, 3, Some("0xff0000"), Some(1), None, Some(7), None),
       TextStyle(1, 2, Some("0x00ff00"), None, Some(2), None, Some(-5)),
       TextStyle(MaxLen + 2, MaxLen + 5, Some("0x0000ff"), Some(3), Some(3),
                 Some(3), Some(3))>>}

Placeholders == {<< >>, <<"a", "W">>}

\* the descriptors a TextArea is constructed with
Fonts == {FontData, FontNoSpace}

\* a TextArea whose public fields have been assigned; the placeholder is
\* varied where it shows (empty text), the caret is at either end
LayoutInitOver(widths, heights, styleLists) ==
    /\ \E text \in Texts, width \in widths, height \in heights,
          wordWrap \in BOOLEAN, styles \in styleLists,
          placeholder \in Placeholders, caretIndex \in 0..MaxLen,
          font \in Fonts :
            /\ caretIndex \in {0, Len(text)}
            /\ Len(text) > 0 => placeholder = << >>
            /\ area = [TextAreaNew EXCEPT
                          !.text = text, !.width = width, !.height = height,
                          !.wordWrap = wordWrap, !.styles = styles,
                          !.placeholder = placeholder,
                          !.caretIndex = caretIndex,
                          !.fontData = font]
    /\ areaGlyphs = << >>
    /\ areaCall = AreaCall("new", 0, 0, 0)
    /\ EditorIdle
    /\ BoxIdle
    /\ TextInit(1)

LayoutInit == LayoutInitOver(Widths, Heights, StyleLists)

ComputeLayout ==
    LET r == computeLayout(area)
    IN  /\ area' = r.area
        /\ areaGlyphs' = r.glyphs
        /\ areaCall' = AreaCall("computeLayout", 0, 0, 0)
        /\ UNCHANGED <<editorVars, boxVars, textVars>>

LayoutNext == ComputeLayout

\* a configured TextArea laid out
SpecLayout == LayoutInit /\ [][LayoutNext]_vars

\* box widths that hold no glyph at all
NarrowWidths == {-10, 0}

NarrowInit == LayoutInitOver(NarrowWidths, {TextAreaNew.height}, {<< >>})

NarrowNext == ComputeLayout

\* a TextArea of width <= 0 laid out
SpecNarrow == NarrowInit /\ [][NarrowNext]_vars

-----------------------------------------------------------------------------
(* The caret of a TextArea: layout, hit test, vertical move, Delete key *)

\* the length of the long first line
MaxRun == 14

Run(c, n) == [k \in 1..n |-> c]

\* texts of one and two lines, and a long line above a short or empty one
CaretTexts ==
    {<< >>, <<"a">>, <<"a", "W">>, <<"?", "a">>, <<"a", " ", "W">>,
     <<"a", "\n", "W">>, <<"W", "a", "\n", "a">>}
    \cup {Run("W", MaxRun) \o <<"\n">> \o Run("a", m) : m \in {0, 2}}

CaretWidths == {50, TextAreaNew.width}

\* the coordinates of the hit tests, besides the caret's own position
QueryXs == {-10, 45}
QueryYs == {10, -40}

CaretInit ==
    /\ \E text \in CaretTexts, width \in CaretWidths, wordWrap \in BOOLEAN,
          placeholder \in Placeholders, font \in Fonts,
          caretIndex \in 0..(MaxRun + 3) :
            /\ caretIndex <= Len(text)
            /\ Len(text) > 0 => placeholder = << >>
            /\ Len(text) > 3 => (font = FontData /\ width = TextAreaNew.width)
            /\ area = [TextAreaNew EXCEPT
                          !.text = text, !.width = width,
                          !.wordWrap = wordWrap,
                          !.placeholder = placeholder,
                          !.caretIndex = caretIndex,
                          !.fontData = font]
    /\ areaGlyphs = << >>
    /\ areaCall = AreaCall("new", 0, 0, 0)
    /\ EditorIdle
    /\ BoxIdle
    /\ TextInit(1)

GetIndexAtPos ==
    \E x \in QueryXs \cup {area.lastCaretPos.x},
       y \in QueryYs \cup {area.lastCaretPos.y} :
        /\ areaCall' = AreaCall("getIndexAtPos", x, y, getIndexAtPos(area, x, y))
        /\ UNCHANGED <<area, areaGlyphs, editorVars, boxVars, textVars>>

MoveCaretVertical ==
    \E direction \in {-1, 1} :
        /\ area' = moveCaretVertical(area, direction)
        /\ areaCall' = AreaCall("moveCaretVertical", area.lastCaretPos.x,
                                targetY(area, direction), direction)
        /\ UNCHANGED <<areaGlyphs, editorVars, boxVars, textVars>>

\* (pressed on the short texts only, to bound the texts reached)
DeleteKey ==
    /\ Len(area.text) <= MaxLen
    /\ area' = deleteKey(area)
    /\ areaCall' = AreaCall("delete", 0, 0, 0)
    /\ UNCHANGED <<areaGlyphs, editorVars, boxVars, textVars>>

CaretNext ==
    \/ ComputeLayout
    \/ GetIndexAtPos
    \/ MoveCaretVertical
    \/ DeleteKey

SpecCaret == CaretInit /\ [][CaretNext]_vars

-----------------------------------------------------------------------------
(* Properties of the layout *)

\* computeLayout has run (it always records at least the end-of-text entry)
LaidOut == area.visualMap # << >>

\* C5 (as stated): after computeLayout the position index has exactly
\* text.length + 1 entries, one per index 0..text.length in order, and empty
\* text yields the single entry (0,0).
C5_IndexHasTextLengthPlusOne ==
    LaidOut =>
        /\ Len(area.visualMap) = Len(area.text) + 1
        /\ \A k \in 1..Len(area.visualMap) : area.visualMap[k].index = k - 1
        /\ Len(area.text) = 0 =>
              area.visualMap = <<[index |-> 0, x |-> 0, y |-> 0]>>

\* C5 (amended): after computeLayout the position index has one entry per
\* index 0..L in order, L being the length of the string laid out: the text,
\* or the placeholder when the text is empty and a placeholder is set; with
\* empty text and no placeholder it is the single entry (0,0).
C5_IndexCoversLaidOutText ==
    LaidOut =>
        /\ Len(area.visualMap) = Len(LaidOutText(area)) + 1
        /\ \A k \in 1..Len(area.visualMap) : area.visualMap[k].index = k - 1
        /\ (Len(area.text) = 0 /\ Len(area.placeholder) = 0) =>
              area.visualMap = <<[index |-> 0, x |-> 0, y |-> 0]>>
        /\ Len(area.text) > 0 => Len(area.visualMap) = Len(area.text) + 1

\* an empty text showing its placeholder has been laid out
C5_Witness ==
    /\ LaidOut
    /\ Len(area.text) = 0
    /\ Len(area.placeholder) > 0
    /\ Len(area.visualMap) = Len(area.placeholder) + 1

\* the style offsetX applied to a glyph
AppliedOffsetX(g) ==
    GlyphStyle(area, Len(area.text) = 0 /\ Len(area.placeholder) > 0,
               g.index).offX

\* the case C6 is about: word wrap on, box at least one widest glyph wide
C6_Case == area.wordWrap /\ area.width >= WidestAdvance

\* C6 (as stated): with word wrap on and boxWidth >= the widest advance,
\* every emitted glyph satisfies x + advance <= boxWidth.
C6_GlyphsWithinWidth ==
    C6_Case =>
        \A k \in 1..Len(areaGlyphs) :
            areaGlyphs[k].x + areaGlyphs[k].char.xadvance <= area.width

\* C6 (amended): with word wrap on and boxWidth >= the widest advance, every
\* emitted glyph satisfies (x - offsetX) + advance <= boxWidth, offsetX being
\* the style offset applied to that glyph (0 when no style sets one).
C6_PenWithinWidth ==
    C6_Case =>
        \A k \in 1..Len(areaGlyphs) :
            (areaGlyphs[k].x - AppliedOffsetX(areaGlyphs[k]))
                + areaGlyphs[k].char.xadvance <= area.width

\* a token wider than the box has been broken by the character-level wrap
C6_Witness ==
    /\ C6_Case
    /\ Len(areaGlyphs) >= 2
    /\ \E k \in 2..Len(areaGlyphs) :
          /\ areaGlyphs[k].index = areaGlyphs[k - 1].index + 1
          /\ areaGlyphs[k].y < areaGlyphs[k - 1].y
          /\ areaGlyphs[k - 1].x - AppliedOffsetX(areaGlyphs[k - 1])
                + areaGlyphs[k - 1].char.xadvance
                + areaGlyphs[k].char.xadvance > area.width

-----------------------------------------------------------------------------
(* Properties of TextManager.clear and update *)

\* C11: clear() always leaves liveCount = 0; it reallocates the buffers at
\* the baseline capacity exactly when capacity > 2 x baseline, and otherwise
\* keeps the existing buffers with their capacity unchanged.
C11_ClearShrinksOrKeeps ==
    [][textCall'.op = "clear" =>
        /\ mesh'.count = 0
        /\ capacity > 2 * ClearCapacity =>
              /\ capacity' = ClearCapacity
              /\ mesh' = createMesh(ClearCapacity)
        /\ capacity <= 2 * ClearCapacity =>
              /\ capacity' = capacity
              /\ mesh'.instanceMatrix = mesh.instanceMatrix
              /\ mesh'.aUvOffset = mesh.aUvOffset
              /\ mesh'.aColor = mesh.aColor]_vars

\* clear() has shrunk an oversized pool to the baseline
C11_Witness ==
    /\ textCall.op = "clear"
    /\ capacity = ClearCapacity
    /\ mesh.count = 0
    /\ DOMAIN mesh.aColor = 0..(ClearCapacity - 1)

-----------------------------------------------------------------------------
(* Actions on the TextManager's lifecycle *)

\* the initialCapacity values of the lifecycle runs
ManagerCapacities == {2}

\* n glyphs of which the k-th (if any) lacks its char
BadGlyphList(n, k) ==
    [i \in 1..n |->
        IF i = k
        THEN [x |-> 0, y |-> 0, z |-> 0, scale |-> 1, rotation |-> 0,
              color |-> "undefined"]
        ELSE GlyphList(n, 1)[i]]

\* the sizes of the direct uploads of the lifecycle runs
DirectSizes == {0, 3}

SetLoading(r) ==
    /\ SetTM(r.tm)
    /\ loading' = r.loading
    /\ textCall' = TextCall("load", r.loading.result = "rejected")
    /\ grown' = NoGrowth
    /\ UNCHANGED <<boxVars, areaVars>>

\* load(fontUrl, textureUrl) is called and awaits the fetch
LoadStart ==
    /\ loading = NotLoading
    /\ loading' = [pc |-> "fetch", result |-> "none"]
    /\ textCall' = TextCall("load", FALSE)
    /\ UNCHANGED <<capacity, mesh, growthCount, grown, fontData, uMap,
                   managedObjects, boxVars, areaVars>>

LoadFetched ==
    /\ loading.pc = "fetch"
    /\ \E outcome \in FetchOutcomes : SetLoading(loadFetched(TM, outcome))

LoadTextured ==
    /\ loading.pc = "texture"
    /\ \E ok \in BOOLEAN : SetLoading(loadTextured(TM, ok))

\* textManager.add(area) with a TextArea the caller constructed
AddObject ==
    \E o \in AreaNames :
        /\ SetTM(add(TM, o))
        /\ textCall' = TextCall("add", FALSE)
        /\ grown' = NoGrowth
        /\ UNCHANGED <<loading, boxVars, areaVars>>

RemoveObject ==
    \E k \in 1..Len(managedObjects) :
        /\ SetTM(remove(TM, managedObjects[k]))
        /\ textCall' = TextCall("remove", FALSE)
        /\ grown' = NoGrowth
        /\ UNCHANGED <<loading, boxVars, areaVars>>

CreateTextArea ==
    \E o \in AreaNames :
        LET r == createTextArea(TM, o)
        IN  /\ SetTM(r.tm)
            /\ textCall' = TextCall("createTextArea", r.threw)
            /\ grown' = NoGrowth
            /\ UNCHANGED <<loading, boxVars, areaVars>>

\* textManager.createNoteBox(boxManager, name)
CreateNoteBox ==
    \E name \in {1} :
        /\ name \notin Names(noteBoxMap)
        /\ idCounter + 3 <= MaxNoteIds
        /\ IF createNoteBoxThrows(TM)
           THEN /\ textCall' = TextCall("createNoteBox", TRUE)
                /\ UNCHANGED <<capacity, mesh, growthCount, fontData, uMap,
                               managedObjects, boxVars>>
           ELSE LET r == NoteBoxNew(BM, name)
                IN  /\ SetBM(r.bm)
                    /\ noteBoxMap' = Append(noteBoxMap, r.nb)
                    /\ issued' = issued \cup {r.nb.headerId, r.nb.bodyId,
                                              r.nb.resizeHandleId}
                    /\ lastCall' = Call("NoteBox", -1, -1, name, "null")
                    /\ SetTM(add(TM, r.nb.headerId))
                    /\ textCall' = TextCall("createNoteBox", FALSE)
        /\ grown' = NoGrowth
        /\ UNCHANGED <<loading, areaVars>>

\* textManager.update(), once per frame
Update ==
    \E r \in {update(TM)} :
        /\ SetTM(r.tm)
        /\ grown' = r.grown
        /\ textCall' = TextCall("update", r.threw)
        /\ UNCHANGED <<loading, boxVars, areaVars>>

\* textManager.renderGlyphs(glyphs) with a list the caller built
RenderGlyphsDirect ==
    \E n \in DirectSizes, k \in {0, 2} :
        LET r == renderGlyphs(TM, BadGlyphList(n, k))
        IN  /\ SetTM(r.tm)
            /\ grown' = r.grown
            /\ textCall' = TextCall("renderGlyphs", r.threw)
            /\ UNCHANGED <<loading, boxVars, areaVars>>

SetTextDirect ==
    \E n \in DirectSizes :
        LET r == setText(TM, TextOf(n))
        IN  /\ SetTM(r.tm)
            /\ grown' = r.grown
            /\ textCall' = TextCall("setText", FALSE)
            /\ UNCHANGED <<loading, boxVars, areaVars>>

\* Exhibits.clearScene(): both managers and the note box map are cleared
ClearScene ==
    /\ SetBM(clear(BM))
    /\ noteBoxMap' = << >>
    /\ lastCall' = Call("clear", -1, -1, 0, "null")
    /\ SetTM(clearText(TM))
    /\ grown' = NoGrowth
    /\ textCall' = TextCall("clear", FALSE)
    /\ UNCHANGED <<issued, loading, areaVars>>

ManagerInit ==
    /\ \E c \in ManagerCapacities : TextNew(c)
    /\ SetBMInit(BoxManagerNew(3 * MaxNoteBoxes))
    /\ noteBoxMap = << >>
    /\ lastCall = [op |-> "new", id |-> -1, ret |-> -1, box |-> 0,
                   part |-> "null", live |-> FALSE]
    /\ issued = {}
    /\ AreaIdle

ManagerNext ==
    \/ LoadStart
    \/ LoadFetched
    \/ LoadTextured
    \/ AddObject
    \/ CreateTextArea
    \/ CreateNoteBox
    \/ Update
    \/ RenderGlyphsDirect
    \/ SetTextDirect

\* a TextManager from its construction on: load, registration, uploads
SpecManager == ManagerInit /\ [][ManagerNext]_vars

FramesInit ==
    /\ \E c \in ManagerCapacities : TextInit(c)
    /\ SetBMInit(BoxManagerNew(3 * MaxNoteBoxes))
    /\ noteBoxMap = << >>
    /\ lastCall = [op |-> "new", id |-> -1, ret |-> -1, box |-> 0,
                   part |-> "null", live |-> FALSE]
    /\ issued = {}
    /\ AreaIdle

FramesNext ==
    \/ AddObject
    \/ RemoveObject
    \/ CreateTextArea
    \/ CreateNoteBox
    \/ Update
    \/ ClearScene

\* a loaded TextManager over the frames of a scene: objects come and go,
\* update() runs, the scene is cleared
SpecFrames == FramesInit /\ [][FramesNext]_vars

-----------------------------------------------------------------------------
(* A NoteBox edited, resized, moved and laid out *)

\* a title wider than minWidth, a body of several lines in a narrow box
Titles == {<< >>, Run("W", MaxRun - 3)}
Bodies == {<< >>, Run("a", MaxRun \div 2)}

\* a size below every fitted size, a size above
Sizes == {[w |-> 100, h |-> 100], [w |-> 2000, h |-> 1000]}

Positions == {Vec(300, -200, 10)}

\* the NoteBox at noteBoxMap[i] and the BoxManager replaced
SetNoteBox(i, r) ==
    /\ SetBM(r.bm)
    /\ noteBoxMap' = [noteBoxMap EXCEPT ![i] = r.nb]

\* noteBox.setTitle(text)
SetTitle ==
    \E i \in 1..Len(noteBoxMap), text \in Titles :
        /\ noteBoxMap' = [noteBoxMap EXCEPT ![i].titleArea.text = text]
        /\ lastCall' = Call("setTitle", -1, -1, noteBoxMap[i].name, "null")
        /\ UNCHANGED <<maxBoxes, instances, idCounter, idToIndex, meshCount,
                       meshData, issued, textVars, areaVars>>

\* noteBox.setBody(text)
SetBody ==
    \E i \in 1..Len(noteBoxMap), text \in Bodies :
        /\ noteBoxMap' = [noteBoxMap EXCEPT ![i].bodyArea.text = text]
        /\ lastCall' = Call("setBody", -1, -1, noteBoxMap[i].name, "null")
        /\ UNCHANGED <<maxBoxes, instances, idCounter, idToIndex, meshCount,
                       meshData, issued, textVars, areaVars>>

\* the public fields autoWidth and autoHeight assigned
SetAuto ==
    \E i \in 1..Len(noteBoxMap), autoWidth \in BOOLEAN, autoHeight \in BOOLEAN :
        /\ noteBoxMap' = [noteBoxMap EXCEPT ![i].autoWidth = autoWidth,
                                            ![i].autoHeight = autoHeight]
        /\ lastCall' = Call("setAuto", -1, -1, noteBoxMap[i].name, "null")
        /\ UNCHANGED <<maxBoxes, instances, idCounter, idToIndex, meshCount,
                       meshData, issued, textVars, areaVars>>

\* noteBox.setSize(w, h), as a resize drag calls it
SetSize ==
    \E i \in 1..Len(noteBoxMap), size \in Sizes :
        /\ SetNoteBox(i, setSize(BM, noteBoxMap[i], size.w, size.h))
        /\ lastCall' = Call("setSize", -1, -1, noteBoxMap[i].name, "null")
        /\ UNCHANGED <<issued, textVars, areaVars>>

\* noteBox.setPosition(x, y, z)
SetPosition ==
    \E i \in 1..Len(noteBoxMap), p \in Positions :
        /\ SetNoteBox(i, setPosition(BM, noteBoxMap[i], p.x, p.y, p.z))
        /\ lastCall' = Call("setPosition", -1, -1, noteBoxMap[i].name, "null")
        /\ UNCHANGED <<issued, textVars, areaVars>>

\* noteBox.getLayout(textScale)
GetLayout ==
    \E i \in 1..Len(noteBoxMap) :
        \E r \in {getLayout(BM, noteBoxMap[i])} :
            /\ SetNoteBox(i, r)
            /\ lastCall' = Call("getLayout", -1, -1, noteBoxMap[i].name,
                                "null")
            /\ UNCHANGED <<issued, textVars, areaVars>>

SizingNext ==
    \/ CreateNoteBox
    \/ SetTitle
    \/ SetBody
    \/ SetAuto
    \/ SetSize
    \/ SetPosition
    \/ GetLayout

\* one NoteBox of a loaded engine through edits, resizes, moves and frames
SpecSizing == FramesInit /\ [][SizingNext]_vars

-----------------------------------------------------------------------------
(* NoteBoxes disposed while the TextManager keeps updating *)

\* the index in map of the NoteBox whose identity is o, 0 if there is none
BoxOf(map, o) ==
    IF \E i \in 1..Len(map) : map[i].headerId = o
    THEN CHOOSE i \in 1..Len(map) : map[i].headerId = o
    ELSE 0

\* the loop of update() over managedObjects[k..]: a NoteBox is asked for
\* getLayout, which may resize it; a TextArea for getWorldLayout
RECURSIVE collectLayouts(_, _, _, _, _)
collectLayouts(objects, k, b, map, allLayouts) ==
    IF k > Len(objects) THEN [bm |-> b, map |-> map, glyphs |-> allLayouts]
    ELSE IF BoxOf(map, objects[k]) = 0
    THEN CHOOSE out \in
            {collectLayouts(objects, k + 1, b, map, all) :
                all \in {allLayouts \o ObjectLayout(objects[k])}} : TRUE
    ELSE CHOOSE out \in
            {collectLayouts(objects, k + 1, s.bm, s.map, s.all) :
                s \in {[bm |-> r.bm,
                        map |-> [map EXCEPT ![BoxOf(map, objects[k])] = r.nb],
                        all |-> allLayouts \o r.glyphs] :
                    r \in {getLayout(bb, nb) :
                              bb \in {b},
                              nb \in {map[BoxOf(map, objects[k])]}}}} : TRUE

\* TextManager.update() over NoteBoxes: the managers and the NoteBoxes after
\* the call
updateNotes(tm, b, map) ==
    IF tm.fontData = "null"
    THEN [tm |-> tm, bm |-> b, map |-> map, grown |-> NoGrowth,
          threw |-> FALSE]
    ELSE CHOOSE out \in
            {[tm |-> c.r.tm, bm |-> c.l.bm, map |-> c.l.map,
              grown |-> c.r.grown, threw |-> c.r.threw] :
                c \in {[l |-> l, r |-> renderGlyphs(t, l.glyphs)] :
                          t \in {tm},
                          l \in {collectLayouts(tm.managedObjects, 1, b, map,
                                                << >>)}}} : TRUE

\* textManager.update(), once per frame
UpdateNotes ==
    \E r \in {updateNotes(TM, BM, noteBoxMap)} :
        /\ SetTM(r.tm)
        /\ SetBM(r.bm)
        /\ noteBoxMap' = r.map
        /\ grown' = r.grown
        /\ textCall' = TextCall("update", r.threw)
        /\ lastCall' = Call("update", -1, -1, 0, "null")
        /\ UNCHANGED <<issued, loading, areaVars>>

\* noteBox.dispose(), the caller keeping its reference to the box
Dispose ==
    \E i \in 1..Len(noteBoxMap) :
        /\ SetBM(dispose(BM, noteBoxMap[i]))
        /\ lastCall' = Call("dispose", -1, -1, noteBoxMap[i].name, "null")
        /\ UNCHANGED <<noteBoxMap, issued, textVars, areaVars>>

DisposeNext ==
    \/ NewNoteBox
    \/ SetBody
    \/ Dispose
    \/ UpdateNotes

\* NoteBoxes with body text created and disposed between frames
SpecDispose == FramesInit /\ [][DisposeNext]_vars

-----------------------------------------------------------------------------
(* Properties of update, of failing uploads and of load *)

\* C12: each update() makes one wholesale upload of the layouts of all
\* managed objects concatenated in registration order: afterwards liveCount
\* is the total number of glyphs they produced and every live slot holds
\* this frame's glyph, none of the previous frame's upload.
C12_UpdateUploadsWholesale ==
    [][textCall'.op = "update" =>
        \E all \in {AllLayouts(managedObjects)} :
            /\ mesh'.count = Len(all)
            /\ \A i \in 0..(Len(all) - 1) :
                  /\ mesh'.instanceMatrix[i] =
                        WriteGlyph(mesh', i, all[i + 1]).instanceMatrix[i]
                  /\ mesh'.aUvOffset[i] =
                        WriteGlyph(mesh', i, all[i + 1]).aUvOffset[i]
                  /\ mesh'.aColor[i] =
                        WriteGlyph(mesh', i, all[i + 1]).aColor[i]]_vars

\* update() has uploaded two objects registered in the order 102, 101
C12_Witness ==
    /\ textCall.op = "update"
    /\ Len(managedObjects) >= 2
    /\ managedObjects[1] = 102
    /\ mesh.count = Len(AllLayouts(managedObjects))
    /\ mesh.count = 3

\* C13: a renderGlyphs call that fails part-way (a malformed glyph record,
\* missing font data) leaves the pool exactly as before the call: capacity,
\* liveCount and every record unchanged.
C13_FailedUploadLeavesPool ==
    [][(textCall'.op = "renderGlyphs" /\ textCall'.threw) =>
        /\ capacity' = capacity
        /\ mesh'.count = mesh.count
        /\ \A i \in 0..(mesh.count - 1) :
              /\ mesh'.instanceMatrix[i] = mesh.instanceMatrix[i]
              /\ mesh'.aUvOffset[i] = mesh.aUvOffset[i]
              /\ mesh'.aColor[i] = mesh.aColor[i]]_vars

\* the layout and pool operations C14 names
GuardedOps ==
    {"setText", "renderGlyphs", "update", "createTextArea", "createNoteBox"}

\* C14: setText, renderGlyphs, update, createTextArea and createNoteBox
\* called before load() has completed throw rather than silently do nothing.
C14_UnloadedCallsThrow ==
    [][(fontData = "null" /\ loading.result = "none"
           /\ textCall'.op \in GuardedOps) => textCall'.threw]_vars

\* C15: when load() rejects, fontData is not set; afterwards update()
\* uploads no glyphs and createTextArea / createNoteBox refuse.
C15_RejectedLoadLeavesUnloaded ==
    [][/\ loading'.result = "rejected" => fontData' = "null"
       /\ (loading.result = "rejected" /\ textCall'.op = "update")
             => mesh' = mesh
       /\ (loading.result = "rejected"
              /\ textCall'.op \in {"createTextArea", "createNoteBox"})
             => textCall'.threw]_vars

-----------------------------------------------------------------------------
(* Properties of the token wrap and of unmapped characters *)

\* the string the position index was computed for
Laid == LaidOutText(area)

\* the position index entry of character index i (counted from 0)
Entry(i) == area.visualMap[i + 1]

\* the advance of the character at index i: 0 for a newline or a character
\* the font lacks
Adv(i) ==
    IF Laid[i + 1] # "\n" /\ IsMappedIn(area.fontData, Laid[i + 1])
    THEN CharMapGetIn(area.fontData, Laid[i + 1]).xadvance
    ELSE 0

LineHeight == area.fontData.common.lineHeight * area.lineSpacing

\* where the cursor stands when index i >= 1 is reached
CursorBefore(i) == IF Laid[i] = "\n" THEN 0 ELSE Entry(i - 1).x + Adv(i - 1)
LineBefore(i) ==
    IF Laid[i] = "\n" THEN Entry(i - 1).y - LineHeight ELSE Entry(i - 1).y

IsSpace(c) == c \in {" ", "\t"}

\* index i starts a token: a maximal run of whitespace, or of non-whitespace,
\* within a line
TokenStart(i) ==
    /\ i < Len(Laid)
    /\ Laid[i + 1] # "\n"
    /\ (i = 0 \/ Laid[i] = "\n" \/ IsSpace(Laid[i]) # IsSpace(Laid[i + 1]))

\* the indices of the token starting at i
TokenIndices(i) ==
    {j \in i..(Len(Laid) - 1) :
        \A k \in i..j : /\ Laid[k + 1] # "\n"
                        /\ IsSpace(Laid[k + 1]) = IsSpace(Laid[i + 1])}

RECURSIVE SumAdv(_)
SumAdv(S) ==
    IF S = {} THEN 0
    ELSE LET j == CHOOSE k \in S : TRUE IN Adv(j) + SumAdv(S \ {j})

TokenWidth(i) == SumAdv(TokenIndices(i))

\* C17: with word wrap on, a token that begins at cursorX > 0 is moved as a
\* whole to x = 0 of the next line exactly when cursorX + tokenWidth >
\* boxWidth (one that exactly fits stays), and a token no wider than the box
\* is never split across lines.
C17_TokenWrapsWhole ==
    (LaidOut /\ area.wordWrap) =>
        \A i \in 0..(Len(Laid) - 1) :
            TokenStart(i) =>
                /\ (i > 0 /\ CursorBefore(i) > 0) =>
                      IF CursorBefore(i) + TokenWidth(i) > area.width
                      THEN /\ Entry(i).x = 0
                           /\ Entry(i).y = LineBefore(i) - LineHeight
                      ELSE /\ Entry(i).x = CursorBefore(i)
                           /\ Entry(i).y = LineBefore(i)
                /\ TokenWidth(i) <= area.width =>
                      \A j \in TokenIndices(i) : Entry(j).y = Entry(i).y

\* "a W" in a box exactly as wide as "a ": the space stays on the first
\* line and "W" starts the next one
C17_Witness ==
    /\ LaidOut /\ area.wordWrap
    /\ area.fontData = FontData
    /\ area.text = <<"a", " ", "W">>
    /\ area.width = 30
    /\ Entry(1) = [index |-> 1, x |-> 20, y |-> 0]
    /\ Entry(2) = [index |-> 2, x |-> 0, y |-> -40]

\* C18: in the layout pass a space the font has no entry for still advances
\* the cursor: the entry of the following character on the same line has a
\* strictly larger x than the space's own entry.
C18_UnmappedSpaceAdvances ==
    LaidOut =>
        \A i \in 0..(Len(Laid) - 2) :
            (/\ Laid[i + 1] = " "
             /\ ~IsMappedIn(area.fontData, " ")
             /\ Laid[i + 2] # "\n"
             /\ Entry(i + 1).y = Entry(i).y)
                => Entry(i + 1).x > Entry(i).x

-----------------------------------------------------------------------------
(* Properties of the caret *)

\* the position index and the captured caret position are those of the
\* current fields: computeLayout would change neither
Fresh ==
    /\ LaidOut
    /\ area.caretIndex <= Len(area.text)
    /\ computeLayout(area).area = area

\* a hit test at the captured caret position of unwrapped single-line text
C16_Case ==
    /\ areaCall.op = "getIndexAtPos"
    /\ Fresh
    /\ ~area.wordWrap
    /\ \A k \in 1..Len(area.text) : area.text[k] # "\n"
    /\ areaCall.x = area.lastCaretPos.x
    /\ areaCall.y = area.lastCaretPos.y

\* C16 (as stated): for unwrapped single-line text and every index i,
\* computing the layout with caretIndex = i and passing the captured caret
\* position to getIndexAtPos returns i.
C16_CaretRoundTrip == C16_Case => areaCall.ret = area.caretIndex

\* C16 (amended): the hit test at the captured caret position returns the
\* lowest index whose entry is at that position, which is i itself when
\* every character before i has a font entry with a positive advance.
C16_RoundTripToLowestAtPosition ==
    C16_Case =>
        /\ Entry(areaCall.ret).x = Entry(area.caretIndex).x
        /\ \A j \in 0..(areaCall.ret - 1) :
              Entry(j).x # Entry(area.caretIndex).x
        /\ (\A j \in 0..(area.caretIndex - 1) : Adv(j) > 0)
              => areaCall.ret = area.caretIndex

C16_Witness ==
    /\ C16_Case
    /\ area.text = <<"a", "W">>
    /\ area.caretIndex = 2
    /\ areaCall.ret = 2

\* the y values of the position index
LineYs == {area.visualMap[k].y : k \in 1..Len(area.visualMap)}

\* C19: moveCaretVertical(direction) moves the caret by one line keeping the
\* column: when a line exists directly below (direction 1) or above
\* (direction -1) the caret's line, the new caretIndex is the index on that
\* line whose x is nearest the caret's x; otherwise the caret stays on its
\* line.
C19_MovesToAdjacentLine ==
    [][(areaCall'.op = "moveCaretVertical" /\ Fresh /\ Len(area.text) > 0) =>
        LET new == area'.visualMap[area'.caretIndex + 1]
        IN  IF areaCall'.y \in LineYs
            THEN /\ new.y = areaCall'.y
                 /\ \A k \in 1..Len(area.visualMap) :
                       area.visualMap[k].y = areaCall'.y =>
                           Abs(new.x - area.lastCaretPos.x)
                               <= Abs(area.visualMap[k].x
                                        - area.lastCaretPos.x)
            ELSE new.y = area.lastCaretPos.y]_vars

\* the entries getIndexAtPos may return for the last query: the first one
\* at the least weighted distance
Nearest(k) ==
    /\ \A j \in 1..Len(area.visualMap) :
          DistSq(area.visualMap[k], areaCall.x, areaCall.y)
              <= DistSq(area.visualMap[j], areaCall.x, areaCall.y)
    /\ \A j \in 1..(k - 1) :
          DistSq(area.visualMap[k], areaCall.x, areaCall.y)
              < DistSq(area.visualMap[j], areaCall.x, areaCall.y)

\* C20: getIndexAtPos(x, y) returns the index of the entry of the last
\* computed position index that minimises dx^2 + (dy * W)^2, the lowest on
\* ties, clamped to text.length: the result always lies in 0..text.length,
\* also when the index is stale.
C20_NearestEntryClamped ==
    areaCall.op = "getIndexAtPos" =>
        /\ areaCall.ret \in 0..Len(area.text)
        /\ IF area.visualMap = << >> THEN areaCall.ret = 0
           ELSE \E k \in 1..Len(area.visualMap) :
                   /\ Nearest(k)
                   /\ \A j \in 1..(k - 1) :
                         area.visualMap[j].index < area.visualMap[k].index
                   /\ areaCall.ret =
                         Min(Len(area.text), area.visualMap[k].index)

\* the text was shortened after the layout and the nearest entry lies beyond
\* its end
C20_Witness ==
    /\ areaCall.op = "getIndexAtPos"
    /\ Len(area.text) > 0
    /\ Len(area.visualMap) > Len(area.text) + 1
    /\ \E k \in 1..Len(area.visualMap) :
          Nearest(k) /\ area.visualMap[k].index > Len(area.text)
    /\ areaCall.ret = Len(area.text)

-----------------------------------------------------------------------------
(* Properties of styles, clipping and the content size *)

\* the placeholder is what computeLayout lays out
ShowsPlaceholder == Len(area.text) = 0 /\ Len(area.placeholder) > 0

\* the styles covering index i that define the attribute
Definers(i, attr) ==
    {k \in 1..Len(area.styles) :
        /\ area.styles[k].start <= i
        /\ i < area.styles[k].end
        /\ area.styles[k][attr] # None}

\* the attribute at index i: that of the last-declared defining style
Resolved(i, attr, default) ==
    IF Definers(i, attr) = {} THEN default
    ELSE LET last == CHOOSE m \in Definers(i, attr) :
                        \A k \in Definers(i, attr) : k <= m
         IN  area.styles[last][attr][1]

BaseColor ==
    IF ShowsPlaceholder THEN area.placeholderColor ELSE area.defaultColor

\* glyph g carries the attributes the style ranges resolve to at its index
StyledByRanges(g) ==
    /\ g.color = Resolved(g.index, "color", BaseColor)
    /\ g.rotation = Resolved(g.index, "rotation", 0)
    /\ g.scale = Resolved(g.index, "scale", 1)
    /\ g.x = Entry(g.index).x + Resolved(g.index, "offsetX", 0)
    /\ g.y = Entry(g.index).y + Resolved(g.index, "offsetY", 0)

\* glyph g carries the defaults
Unstyled(g) ==
    /\ g.color = BaseColor
    /\ g.rotation = 0
    /\ g.scale = 1
    /\ g.x = Entry(g.index).x
    /\ g.y = Entry(g.index).y

\* C21 (as stated): for every emitted glyph at index i, each of color,
\* rotation, scale, offsetX and offsetY is taken independently from the
\* last-declared style range that covers i and defines that attribute (the
\* default when none does).
C21_LastCoveringStyleWins ==
    LaidOut => \A k \in 1..Len(areaGlyphs) : StyledByRanges(areaGlyphs[k])

\* C21 (amended): the attributes of every glyph emitted for the text are
\* resolved per attribute from the last-declared covering style; the glyphs
\* of the placeholder, shown while the text is empty, carry the defaults
\* whatever the style ranges are.
C21_LastCoveringStyleWinsOnText ==
    LaidOut =>
        \A k \in 1..Len(areaGlyphs) :
            IF ShowsPlaceholder THEN Unstyled(areaGlyphs[k])
            ELSE StyledByRanges(areaGlyphs[k])

\* index 1 takes color, scale and offsetY from the second style and rotation
\* and offsetX from the first, with a range beyond the text declared last
C21_Witness ==
    /\ LaidOut
    /\ Len(area.text) = MaxLen
    /\ Len(area.styles) = 3
    /\ area.styles[3].start > Len(area.text)
    /\ \E k \in 1..Len(areaGlyphs) :
          /\ areaGlyphs[k].index = 1
          /\ areaGlyphs[k].color = area.styles[2].color[1]
          /\ areaGlyphs[k].rotation = area.styles[1].rotation[1]
          /\ areaGlyphs[k].scale = area.styles[2].scale[1]
          /\ areaGlyphs[k].x = Entry(1).x + area.styles[1].offsetX[1]
          /\ areaGlyphs[k].y = Entry(1).y + area.styles[2].offsetY[1]

\* the style offsetY applied to a glyph
AppliedOffsetY(g) == GlyphStyle(area, ShowsPlaceholder, g.index).offY

\* C22: style ranges never influence cursor advancement: for the text, box
\* and wrap setting of the area, every style list gives the same position
\* index, caret position and content size, and glyphs for the same
\* characters at the same pen positions.
C22_StylesLeaveCursorAlone ==
    LaidOut =>
        \A styles \in StyleLists :
            \E r \in {computeLayout([area EXCEPT !.styles = styles])} :
                /\ r.area.visualMap = area.visualMap
                /\ r.area.lastCaretPos = area.lastCaretPos
                /\ getContentWidth(r.area) = getContentWidth(area)
                /\ getContentHeight(r.area) = getContentHeight(area)
                /\ Len(r.glyphs) = Len(areaGlyphs)
                /\ \A k \in 1..Len(areaGlyphs) :
                      /\ r.glyphs[k].char = areaGlyphs[k].char
                      /\ r.glyphs[k].index = areaGlyphs[k].index
                      /\ styles = << >> =>
                            /\ r.glyphs[k].x = areaGlyphs[k].x
                                  - AppliedOffsetX(areaGlyphs[k])
                            /\ r.glyphs[k].y = areaGlyphs[k].y
                                  - AppliedOffsetY(areaGlyphs[k])

\* a styled text that wrapped, with a displaced glyph before the wrap
C22_Witness ==
    /\ LaidOut
    /\ area.styles # << >> /\ ~ShowsPlaceholder
    /\ area.wordWrap
    /\ \E k \in 2..Len(areaGlyphs) :
          /\ AppliedOffsetX(areaGlyphs[k - 1]) # 0
          /\ Entry(areaGlyphs[k].index).y < Entry(areaGlyphs[k - 1].index).y

\* the indices computeLayout emits a glyph for
Emitted == {areaGlyphs[k].index : k \in 1..Len(areaGlyphs)}

\* C23: vertical clipping only suppresses glyph emission: a glyph is emitted
\* for a mapped character iff |cursorY| <= boxHeight on its line, and
\* changing boxHeight alone changes neither the position index, nor the
\* caret position, nor the glyphs that remain.
C23_ClippingOnlySuppresses ==
    LaidOut =>
        /\ Emitted =
              {i \in 0..(Len(Laid) - 1) :
                  /\ Laid[i + 1] # "\n"
                  /\ IsMappedIn(area.fontData, Laid[i + 1])
                  /\ Abs(Entry(i).y) <= area.height}
        /\ \A height \in Heights :
              \E r \in {computeLayout([area EXCEPT !.height = height])} :
                  /\ r.area.visualMap = area.visualMap
                  /\ r.area.lastCaretPos = area.lastCaretPos
                  /\ \A j \in 1..Len(r.glyphs), k \in 1..Len(areaGlyphs) :
                        r.glyphs[j].index = areaGlyphs[k].index
                            => r.glyphs[j] = areaGlyphs[k]

\* a box one line high: the glyph on the line at -lineHeight is emitted, the
\* one a line further down is not
C23_Witness ==
    /\ LaidOut
    /\ area.height = LineHeight
    /\ \E i \in Emitted : Entry(i).y = -LineHeight
    /\ \E i \in 0..(Len(Laid) - 1) :
          /\ IsMappedIn(area.fontData, Laid[i + 1])
          /\ Entry(i).y < -LineHeight
          /\ i \notin Emitted

\* C24: computeLayout is idempotent: called again with the same fields it
\* returns the same glyph list and leaves the same position index.
C24_Idempotent ==
    areaCall.op = "computeLayout" =>
        \E r \in {computeLayout(area)} :
            /\ r.glyphs = areaGlyphs
            /\ r.area.visualMap = area.visualMap
            /\ r.area = area

C24_Witness ==
    /\ areaCall.op = "computeLayout"
    /\ Len(areaGlyphs) = MaxLen
    /\ area.styles # << >>
    /\ area.wordWrap
    /\ area.lastCaretPos # TextAreaNew.lastCaretPos
    /\ computeLayout(area).glyphs = areaGlyphs

\* the characters with a positive advance
Advancing == {i \in 0..(Len(Laid) - 1) : Adv(i) > 0}

\* C25: computeLayout ends on every input, also with boxWidth <= 0 and word
\* wrap on: the loop records one entry per index 0..length, and in that case
\* every character with a positive advance starts at x = 0 on a line of its
\* own, each below the one before.
C25_NarrowBoxWrapsEveryCharacter ==
    LaidOut =>
        /\ Len(area.visualMap) = Len(Laid) + 1
        /\ \A k \in 1..Len(area.visualMap) : area.visualMap[k].index = k - 1
        /\ (area.wordWrap /\ area.width <= 0) =>
              \A i \in Advancing :
                  /\ Entry(i).x = 0
                  /\ \A j \in Advancing : i < j => Entry(j).y < Entry(i).y

\* three glyphs in a box of width 0, three lines
C25_Witness ==
    /\ LaidOut
    /\ area.wordWrap /\ area.width = 0
    /\ area.text = <<"a", "W", "a">>
    /\ Entry(1) = [index |-> 1, x |-> 0, y |-> -LineHeight]
    /\ Entry(2) = [index |-> 2, x |-> 0, y |-> -2 * LineHeight]

\* the sum of the advances of the characters of str in the area's font
RECURSIVE AdvanceSum(_)
AdvanceSum(str) ==
    IF str = << >> THEN 0
    ELSE (IF str[1] # "\n" /\ IsMappedIn(area.fontData, str[1])
          THEN CharMapGetIn(area.fontData, str[1]).xadvance ELSE 0)
         + AdvanceSum(Tail(str))

NoNewline(str) == \A k \in 1..Len(str) : str[k] # "\n"

\* C26 (as stated): with word wrap disabled lines break only at '\n': text
\* without newlines is laid out on a single line and contentWidth equals the
\* sum of the advances of all its characters.
C26_UnwrappedWidthIsTextAdvance ==
    (LaidOut /\ ~area.wordWrap) =>
        /\ \A i \in 1..(Len(area.visualMap) - 1) : Entry(i).y = LineBefore(i)
        /\ NoNewline(area.text) =>
              /\ \A i \in 0..(Len(area.visualMap) - 1) : Entry(i).y = 0
              /\ getContentWidth(area) = AdvanceSum(area.text)

\* C26 (amended): the same of the laid-out string, which is the placeholder
\* while the text is empty: contentWidth is then the placeholder's width.
C26_UnwrappedWidthIsLaidOutAdvance ==
    (LaidOut /\ ~area.wordWrap) =>
        /\ \A i \in 1..(Len(area.visualMap) - 1) : Entry(i).y = LineBefore(i)
        /\ NoNewline(Laid) =>
              /\ \A i \in 0..(Len(area.visualMap) - 1) : Entry(i).y = 0
              /\ getContentWidth(area) = AdvanceSum(Laid)

\* "a W" in a box narrower than the text, wrap off
C26_Witness ==
    /\ LaidOut /\ ~area.wordWrap
    /\ area.fontData = FontData
    /\ area.text = <<"a", " ", "W">>
    /\ area.width < AdvanceSum(area.text)
    /\ getContentWidth(area) = 60
    /\ Len(areaGlyphs) = 3

-----------------------------------------------------------------------------
(* Properties of the growth slack *)

\* C29: a growth triggered by a required count n leaves a capacity of at
\* least n + the minimum absolute slack, so the uploads of the next
\* minimum-slack sizes above n trigger no further growth; an upload whose
\* size does not exceed the capacity never triggers growth.
C29_GrowthLeavesSlack ==
    [][textCall'.op \in {"renderGlyphs", "setText"} =>
        /\ grown'.did =>
              /\ grown'.required > capacity
              /\ capacity' >= grown'.required + MinSlack
              /\ growthCount' = growthCount + 1
        /\ ~grown'.did =>
              (capacity' = capacity /\ growthCount' = growthCount)
        /\ (/\ textCall'.op = "renderGlyphs" /\ ~textCall'.threw
            /\ mesh'.count <= capacity) => ~grown'.did
        /\ (/\ grown.did /\ textCall'.op = "renderGlyphs"
            /\ mesh'.count >= grown.required
            /\ mesh'.count <= grown.required + MinSlack) => ~grown'.did]_vars

\* a pool grown for 3 glyphs has taken a larger upload without growing again
C29_Witness ==
    /\ textCall.op = "renderGlyphs"
    /\ ~grown.did
    /\ growthCount = 1
    /\ capacity = 3 + MinSlack
    /\ mesh.count = MaxGlyphs

-----------------------------------------------------------------------------
(* Properties of the NoteBox size and rectangles *)

\* the content width of a title laid out without wrapping
UnwrappedWidth(title) ==
    getContentWidth(
        computeLayout([title EXCEPT !.wordWrap = FALSE,
                                    !.width = AutoFitExtent]).area)

\* C27: after NoteBox.getLayout(): with autoWidth on, width >=
\* max(minWidth, unwrapped title content width + 1.0); with autoHeight on,
\* height >= max(2, body content height + headerHeight + 0.5); and getLayout
\* never shrinks width or height.
C27_LayoutFitsAndOnlyGrows ==
    [][lastCall'.op = "getLayout" =>
        \A i \in 1..Len(noteBoxMap) :
            noteBoxMap[i].name = lastCall'.box =>
                LET old == noteBoxMap[i]
                    new == noteBoxMap'[i]
                IN  /\ new.width >= old.width
                    /\ new.height >= old.height
                    /\ old.autoWidth =>
                          new.width >= Max(old.minWidth,
                                           UnwrappedWidth(old.titleArea) + 100)
                    /\ old.autoHeight =>
                          new.height >= Max(200,
                                            getContentHeight(new.bodyArea)
                                                + new.headerHeight + 50)]_vars

\* a box resized to 1.0 x 1.0 has been grown back by getLayout: its width to
\* the width of its title, its height to the minimum height or more
C27_Witness ==
    /\ lastCall.op = "getLayout"
    /\ Len(noteBoxMap) = 1
    /\ noteBoxMap[1].autoWidth /\ noteBoxMap[1].autoHeight
    /\ noteBoxMap[1].titleArea.text # << >>
    /\ noteBoxMap[1].bodyArea.text # << >>
    /\ noteBoxMap[1].width = UnwrappedWidth(noteBoxMap[1].titleArea) + 100
    /\ noteBoxMap[1].width > noteBoxMap[1].minWidth
    /\ noteBoxMap[1].height = 200

\* the record of the rectangle with logical id `id`
Rect(id) == instances[idToIndex[id] + 1]

\* the rectangles of nb are live
RectsLive(nb) == {nb.headerId, nb.bodyId, nb.resizeHandleId} \subseteq LiveIds

\* C28: while a NoteBox's rectangles are live, after any sequence of
\* setSize, setPosition and getLayout calls the records of its header, body
\* and resize-handle rectangles equal the values derived from its current
\* width, height and position, the handle at the bottom-right corner.
C28_RectanglesFollowSize ==
    \A i \in 1..Len(noteBoxMap) :
        LET nb == noteBoxMap[i]
            bodyH == Max(10, nb.height - nb.headerHeight)
        IN  RectsLive(nb) =>
                /\ Rect(nb.headerId).position =
                      ApplyMatrix(Vec(nb.width \div 2,
                                      -(nb.headerHeight \div 2), 1),
                                  nb.position)
                /\ Rect(nb.headerId).scale = Vec(nb.width, nb.headerHeight, 100)
                /\ Rect(nb.bodyId).position =
                      ApplyMatrix(Vec(nb.width \div 2,
                                      -(nb.headerHeight + (bodyH \div 2)), 0),
                                  nb.position)
                /\ Rect(nb.bodyId).scale = Vec(nb.width, bodyH, 100)
                /\ Rect(nb.resizeHandleId).position =
                      ApplyMatrix(Vec(nb.width - 20, -nb.height + 20, 2),
                                  nb.position)
                /\ Rect(nb.resizeHandleId).scale = Vec(40, 40, 100)
                /\ \A id \in {nb.headerId, nb.bodyId, nb.resizeHandleId} :
                      meshData[idToIndex[id]].matrix =
                          <<Rect(id).position, Rect(id).scale>>

\* a box moved, resized below its fitted size and laid out again
C28_Witness ==
    /\ lastCall.op = "getLayout"
    /\ Len(noteBoxMap) = 1
    /\ RectsLive(noteBoxMap[1])
    /\ noteBoxMap[1].position # Vec(0, 0, 0)
    /\ noteBoxMap[1].width = noteBoxMap[1].minWidth
    /\ noteBoxMap[1].height = 200
    /\ Rect(noteBoxMap[1].resizeHandleId).position =
          ApplyMatrix(Vec(380, -180, 2), noteBoxMap[1].position)

-----------------------------------------------------------------------------
(* Properties of NoteBox.dispose *)

RectIds(nb) == {nb.headerId, nb.bodyId, nb.resizeHandleId}

\* the managed objects whose rectangles are live
RECURSIVE LiveObjects(_)
LiveObjects(objects) ==
    IF objects = << >> THEN << >>
    ELSE IF /\ BoxOf(noteBoxMap, Head(objects)) # 0
            /\ ~RectsLive(noteBoxMap[BoxOf(noteBoxMap, Head(objects))])
    THEN LiveObjects(Tail(objects))
    ELSE <<Head(objects)>> \o LiveObjects(Tail(objects))

\* C30: after NoteBox.dispose() none of the NoteBox's visual resources
\* remain: its three rectangles are removed from the BoxManager, all other
\* rectangles stay live, and subsequent TextManager.update() calls upload no
\* glyphs for it.
C30_DisposeReleasesEverything ==
    [][/\ lastCall'.op = "dispose" =>
            \A i \in 1..Len(noteBoxMap) :
                noteBoxMap[i].name = lastCall'.box =>
                    /\ DOMAIN idToIndex' = LiveIds \ RectIds(noteBoxMap[i])
                    /\ \A id \in DOMAIN idToIndex' :
                          instances'[idToIndex'[id] + 1] = Rect(id)
       /\ lastCall'.op = "update" =>
            mesh'.count =
                Len(collectLayouts(LiveObjects(managedObjects), 1, BM,
                                   noteBoxMap, << >>).glyphs)]_vars

-----------------------------------------------------------------------------
(* TextEditor: focus, key handlers, clipboard paste *)

\* most characters the text of an edited TextArea grows to
MaxEdit == 2

\* most clipboard reads in flight at once
MaxReads == 1

\* the editor with the TextAreas it edits; events are the focus events the
\* handler under way has delivered to a subscriber
ED ==
    [activeArea |-> activeArea, isFocused |-> isFocused, areas |-> editAreas,
     clipboard |-> clipboard, events |-> << >>]

SetED(e) ==
    /\ activeArea' = e.activeArea
    /\ isFocused' = e.isFocused
    /\ editAreas' = e.areas
    /\ clipboard' = e.clipboard
    /\ notified' =
          [before |-> IF notified.events = << >> THEN notified.before
                      ELSE Some(notified.events[Len(notified.events)]),
           events |-> e.events]

\* String.prototype.slice(start, end) with 0 <= start
slice(text, start, end) ==
    SubSeq(text, Min(start, Len(text)) + 1, Min(end, Len(text)))

\* every subscriber is called with { focused, source: 'text-editor' }
notifyFocusChange(e, focused) == [e EXCEPT !.events = Append(@, focused)]

handleBlur(e) ==
    [(IF e.isFocused THEN notifyFocusChange(e, FALSE) ELSE e)
        EXCEPT !.activeArea = 0, !.isFocused = FALSE]

\* focus(area, index?): index is None when the argument is left out.
\* focus(null) ends with focusElement.blur(); the blur listener, when it
\* runs, is handleBlur
focus(e, a, index) ==
    IF a # 0
    THEN notifyFocusChange(
             [e EXCEPT !.activeArea = a, !.isFocused = TRUE,
                       !.areas[a].caretIndex =
                           IF index # None THEN index[1]
                           ELSE Len(e.areas[a].text)],
             TRUE)
    ELSE handleBlur(notifyFocusChange(
             [e EXCEPT !.activeArea = 0, !.isFocused = FALSE], FALSE))

insertText(e, char) ==
    IF e.activeArea = 0 THEN e
    ELSE LET a == e.areas[e.activeArea]
             idx == a.caretIndex
         IN  [e EXCEPT !.areas[e.activeArea] =
                 [a EXCEPT !.text = slice(a.text, 0, idx) \o char
                                       \o slice(a.text, idx, Len(a.text)),
                           !.caretIndex = idx + Len(char)]]

\* the keys whose KeyboardEvent.key is a name, longer than one character
NamedKeys ==
    {"Backspace", "Delete", "ArrowLeft", "ArrowRight", "ArrowUp", "ArrowDown",
     "Enter", "Escape"}

\* handleKeyDown(e): a paste only starts clipboard.readText(); the promise
\* remembers nothing, requestedFor records the area focused at the request
handleKeyDown(e, key, ctrlKey) ==
    IF e.activeArea = 0 \/ ~e.isFocused THEN e
    ELSE IF ctrlKey /\ key = "v"
    THEN [e EXCEPT !.clipboard =
                       Append(@, [requestedFor |-> e.activeArea])]
    ELSE LET a == e.areas[e.activeArea]
             idx == a.caretIndex
         IN  CASE key = "Backspace" ->
                    IF idx > 0
                    THEN [e EXCEPT !.areas[e.activeArea] =
                             [a EXCEPT !.text = slice(a.text, 0, idx - 1)
                                            \o slice(a.text, idx, Len(a.text)),
                                       !.caretIndex = Max(0, idx - 1)]]
                    ELSE e
               [] key = "Delete" ->
                    IF idx < Len(a.text)
                    THEN [e EXCEPT !.areas[e.activeArea].text =
                             slice(a.text, 0, idx)
                                 \o slice(a.text, idx + 1, Len(a.text))]
                    ELSE e
               [] key = "ArrowLeft" ->
                    [e EXCEPT !.areas[e.activeArea].caretIndex =
                                  Max(0, idx - 1)]
               [] key = "ArrowRight" ->
                    [e EXCEPT !.areas[e.activeArea].caretIndex =
                                  Min(Len(a.text), idx + 1)]
               [] key = "ArrowUp" ->
                    [e EXCEPT !.areas[e.activeArea] = moveCaretVertical(a, -1)]
               [] key = "ArrowDown" ->
                    [e EXCEPT !.areas[e.activeArea] = moveCaretVertical(a, 1)]
               [] key = "Enter" -> insertText(e, <<"\n">>)
               [] key = "Escape" -> focus(e, 0, None)
               [] OTHER -> e

\* handleKeyPress(e): e.key.length === 1 for a character key
handleKeyPress(e, key) ==
    IF e.activeArea = 0 \/ ~e.isFocused THEN e
    ELSE IF key \notin NamedKeys THEN insertText(e, <<key>>)
    ELSE e

\* the k-th readText() promise settles: fulfilled with a text, or rejected
\* (the rejection is only logged)
pasteSettled(e, k, result) ==
    LET rest == [e EXCEPT !.clipboard =
                     SubSeq(@, 1, k - 1) \o SubSeq(@, k + 1, Len(@))]
    IN  IF result.fulfilled /\ result.text # << >>
        THEN insertText(rest, result.text)
        ELSE rest

\* the TextAreas of the scene
EditorInit ==
    /\ activeArea = 0
    /\ isFocused = FALSE
    /\ editAreas = <<TextAreaNew, TextAreaNew>>
    /\ clipboard = << >>
    /\ notified = [before |-> << >>, events |-> << >>]
    /\ editorCall = EditorCall("new", "", 0, 0)
    /\ area = TextAreaNew
    /\ areaGlyphs = << >>
    /\ areaCall = AreaCall("new", 0, 0, 0)
    /\ BoxIdle
    /\ TextInit(1)

EditorRest == <<area, areaGlyphs, areaCall, boxVars, textVars>>

\* the handler leaves room in the text of the focused TextArea for n more
\* characters (bounds the texts reached)
Room(n) ==
    activeArea # 0 => Len(editAreas[activeArea].text) + n <= MaxEdit

\* editor.focus(area) over the areas in ids, or editor.focus(null)
Focus(ids) ==
    \E a \in ids \cup {0} :
        /\ SetED(focus(ED, a, None))
        /\ editorCall' = EditorCall("focus", "", a, 0)
        /\ UNCHANGED EditorRest

\* editor.focus(area, area.getIndexAtPos(x, y)): a click into the text
FocusAt(ids) ==
    \E a \in ids, x \in QueryXs, y \in QueryYs :
        /\ SetED(focus(ED, a, Some(getIndexAtPos(editAreas[a], x, y))))
        /\ editorCall' = EditorCall("focusAt", "", a, 0)
        /\ UNCHANGED EditorRest

HandleBlur ==
    /\ SetED(handleBlur(ED))
    /\ editorCall' = EditorCall("blur", "", activeArea, 0)
    /\ UNCHANGED EditorRest

KeyDown(keys) ==
    \E key \in keys :
        /\ key = "Enter" => Room(1)
        /\ SetED(handleKeyDown(ED, key, FALSE))
        /\ editorCall' = EditorCall("keydown", key, activeArea, 0)
        /\ UNCHANGED EditorRest

\* Ctrl+V or Cmd+V
PasteKey ==
    /\ Len(clipboard) < MaxReads
    /\ SetED(handleKeyDown(ED, "v", TRUE))
    /\ editorCall' = EditorCall("paste", "v", activeArea, 0)
    /\ UNCHANGED EditorRest

PressKeys == {"a", "Enter"}

KeyPress ==
    \E key \in PressKeys :
        /\ Room(1)
        /\ SetED(handleKeyPress(ED, key))
        /\ editorCall' = EditorCall("keypress", key, activeArea, 0)
        /\ UNCHANGED EditorRest

\* what a clipboard read settles with
ClipboardResults ==
    {[fulfilled |-> FALSE, text |-> << >>],
     [fulfilled |-> TRUE, text |-> << >>],
     [fulfilled |-> TRUE, text |-> <<"a">>],
     [fulfilled |-> TRUE, text |-> <<"a", "\n">>]}

PasteSettles ==
    \E k \in 1..Len(clipboard), result \in ClipboardResults :
        /\ Room(Len(result.text))
        /\ SetED(pasteSettled(ED, k, result))
        /\ editorCall' = EditorCall("pasteSettled", "", activeArea,
                                    clipboard[k].requestedFor)
        /\ UNCHANGED EditorRest

\* a frame lays the edited TextArea out (getWorldLayout -> computeLayout)
LayoutFrame(ids) ==
    \E a \in ids :
        \E r \in {computeLayout(editAreas[a])} :
            /\ editAreas' = [editAreas EXCEPT ![a] = r.area]
            /\ editorCall' = EditorCall("layout", "", a, 0)
            /\ UNCHANGED <<activeArea, isFocused, clipboard, notified,
                           EditorRest>>

FocusNext ==
    \/ Focus({1, 2})
    \/ HandleBlur
    \/ KeyDown({"Escape", "Backspace"})
    \/ PasteKey
    \/ KeyPress
    \/ PasteSettles

\* an editor moved between two TextAreas, with typing and pastes
SpecFocus == EditorInit /\ [][FocusNext]_vars

EditingNext ==
    \/ Focus({1})
    \/ FocusAt({1})
    \/ KeyDown(NamedKeys)
    \/ PasteKey
    \/ KeyPress
    \/ PasteSettles
    \/ LayoutFrame({1})

\* one TextArea edited with every key, laid out between key events
SpecEditing == EditorInit /\ [][EditingNext]_vars

-----------------------------------------------------------------------------
(* Properties of the TextEditor *)

\* the focus events delivered by the last handler, after the one before them
FocusEvents(n) == n.before \o n.events

\* C31: subscribers of onFocusChange are notified exactly when the focused
\* state changes: one event with focused = true when the editor goes from
\* unfocused to focused, one with focused = false when it loses focus
\* (focus(null), Escape, blur), and never two consecutive events with the
\* same value.
C31_NotifiedExactlyOnChange ==
    [][editorCall'.op # "layout" =>
        /\ isFocused' # isFocused => notified'.events = <<isFocused'>>
        /\ isFocused' = isFocused => notified'.events = << >>
        /\ \A i \in 1..(Len(FocusEvents(notified')) - 1) :
              FocusEvents(notified')[i] # FocusEvents(notified')[i + 1]]_vars

-----------------------------------------------------------------------------
(* Properties of the rectangle pool's instance buffers *)

\* C32: after any sequence of addBox, removeBox and updateBox calls, the
\* instance data of every slot s < liveCount (matrix, colors, alpha, gradient
\* mode) equals the values of the rectangle record stored at slot s, and the
\* draw count of the mesh equals liveCount.
C32_BuffersMirrorRecords ==
    /\ meshCount = Len(instances)
    /\ \A s \in 0..(Len(instances) - 1) :
          /\ meshData[s].matrix
                = <<instances[s + 1].position, instances[s + 1].scale>>
          /\ meshData[s].color = instances[s + 1].color1
          /\ meshData[s].color2 = instances[s + 1].color2
          /\ meshData[s].alpha = instances[s + 1].alpha
          /\ meshData[s].mode = instances[s + 1].gradientMode

\* a live rectangle in slot 0 of a pool of two has just been updated to
\* values that differ from its neighbour's
C32_Witness ==
    /\ lastCall.op = "updateBox" /\ lastCall.live
    /\ Len(instances) = 2
    /\ idToIndex[lastCall.id] = 0
    /\ meshData[0] # meshData[1]
    /\ meshData[0].mode = GradientMode.VERTICAL

-----------------------------------------------------------------------------
(* Properties of the glyph pool's bounds *)

\* the slots of the instance buffers an upload of n instances writes
WrittenSlots(n) == 0..(n - 1)

\* C33: after any sequence of setText, renderGlyphs, update and clear calls
\* on a loaded TextManager, liveCount <= capacity, no instance slot >=
\* capacity is ever written, and capacity never decreases except inside
\* clear().
C33_PoolStaysWithinCapacity ==
    [][/\ mesh'.count <= capacity'
       /\ DOMAIN mesh'.instanceMatrix = 0..(capacity' - 1)
       /\ DOMAIN mesh'.aUvOffset = 0..(capacity' - 1)
       /\ DOMAIN mesh'.aColor = 0..(capacity' - 1)
       /\ textCall'.op \in {"setText", "renderGlyphs", "update"} =>
             WrittenSlots(mesh'.count) \subseteq DOMAIN mesh'.instanceMatrix
       /\ textCall'.op # "clear" => capacity' >= capacity]_vars

\* a setText that had to grow the pool has written slots past the old
\* capacity, all of them inside the new buffers
C33_Witness ==
    /\ textCall.op = "setText"
    /\ grown.did
    /\ mesh.count > grown.before.capacity
    /\ mesh.count < capacity
    /\ mesh.aColor[mesh.count - 1] # ZeroColor

\* C39: the baseline clear() shrinks to is the capacity the TextManager was
\* constructed with: after clear(), capacity is never below the
\* constructor's initialCapacity, for any initialCapacity. A TextManager
\* that has never grown holds at most the capacity it was constructed with,
\* so clear() must not lower the capacity of one.
C39_ClearKeepsConstructedCapacity ==
    [][(textCall'.op = "clear" /\ growthCount = 0) =>
          capacity' >= capacity]_vars

-----------------------------------------------------------------------------
(* Properties tying the glyphs to the position index *)

\* C34: for every character that emits a glyph, the glyph's position minus
\* its style offsets equals the position-index entry recorded for that
\* character's index, including characters moved to a new line by the
\* character-level wrap, and glyphs are emitted in increasing
\* character-index order.
C34_GlyphsSitOnTheirEntries ==
    LaidOut =>
        /\ \A k \in 1..Len(areaGlyphs) :
              /\ areaGlyphs[k].index \in 0..(Len(area.visualMap) - 2)
              /\ Entry(areaGlyphs[k].index).index = areaGlyphs[k].index
              /\ areaGlyphs[k].x - AppliedOffsetX(areaGlyphs[k])
                    = Entry(areaGlyphs[k].index).x
              /\ areaGlyphs[k].y - AppliedOffsetY(areaGlyphs[k])
                    = Entry(areaGlyphs[k].index).y
        /\ \A k \in 2..Len(areaGlyphs) :
              areaGlyphs[k - 1].index < areaGlyphs[k].index

\* a styled glyph in the middle of a word was moved to the next line by the
\* character-level wrap, and its entry with it
C34_Witness ==
    /\ LaidOut
    /\ area.wordWrap /\ ~ShowsPlaceholder
    /\ \E k \in 2..Len(areaGlyphs) :
          /\ area.text[areaGlyphs[k].index] = area.text[areaGlyphs[k].index + 1]
          /\ Entry(areaGlyphs[k].index).x = 0
          /\ Entry(areaGlyphs[k].index).y < Entry(areaGlyphs[k].index - 1).y
          /\ AppliedOffsetY(areaGlyphs[k]) # 0
          /\ areaGlyphs[k].y # Entry(areaGlyphs[k].index).y

-----------------------------------------------------------------------------
(* NoteBoxes built on a rectangle pool that runs out *)

\* the maxBoxes of pools that are not a whole number of NoteBoxes
CrowdedCapacities == {1, 2, 4, 5}

CrowdedInit ==
    /\ \E n \in CrowdedCapacities : SetBMInit(BoxManagerNew(n))
    /\ noteBoxMap = << >>
    /\ lastCall = Call("new", -1, -1, 0, "null")
    /\ issued = {}
    /\ TextInit(1)
    /\ AreaIdle

CrowdedNext ==
    \/ NewNoteBox
    \/ DisposeNoteBox
    \/ Pick

\* NoteBoxes constructed and disposed on a pool with room for fewer
\* rectangles than they ask for
SpecCrowded == CrowdedInit /\ [][CrowdedNext]_vars

\* C35: constructing a NoteBox either obtains valid rectangles for all three
\* of its parts (header, body, resize handle) or allocates none: when the
\* pool has fewer than three free slots, no NoteBox is left holding only
\* some of its rectangles or holding the -1 sentinel as a part id.
C35_AllPartsOrNone ==
    [][lastCall'.op = "NoteBox" =>
        \/ /\ Len(instances') = Len(instances) + 3
           /\ Len(noteBoxMap') = Len(noteBoxMap) + 1
           /\ RectIds(noteBoxMap'[Len(noteBoxMap')]) \subseteq DOMAIN idToIndex'
           /\ Cardinality(RectIds(noteBoxMap'[Len(noteBoxMap')])) = 3
        \/ /\ Len(instances') = Len(instances)
           /\ noteBoxMap' = noteBoxMap]_vars

-----------------------------------------------------------------------------
(* Properties of the caret under editing *)

\* C36: starting from a focused area with 0 <= caretIndex <= text.length,
\* any sequence of editor key events (character input, Enter, Backspace,
\* Delete, the four arrow keys, paste) and focus() calls with indices
\* obtained from getIndexAtPos keeps 0 <= caretIndex <= text.length, even
\* when arrow-up/down run against a position index that is stale relative
\* to the edited text.
C36_CaretStaysInText ==
    \A a \in 1..Len(editAreas) :
        /\ 0 <= editAreas[a].caretIndex
        /\ editAreas[a].caretIndex <= Len(editAreas[a].text)

\* the entries of the position index that lie beyond the text
StaleEntries(a) ==
    {k \in 1..Len(a.visualMap) : a.visualMap[k].index > Len(a.text)}

\* ArrowDown has just run on a position index laid out for a longer text:
\* the nearest entry lies beyond the text and the caret stopped at its end
C36_Witness ==
    /\ editorCall.op = "keydown" /\ editorCall.key = "ArrowDown"
    /\ activeArea = 1
    /\ StaleEntries(editAreas[1]) # {}
    /\ IndexLoop(editAreas[1].visualMap, 1, editAreas[1].lastCaretPos.x,
                 targetY(editAreas[1], 1), 0, -1)
          > Len(editAreas[1].text)
    /\ editAreas[1].caretIndex = Len(editAreas[1].text)

-----------------------------------------------------------------------------
(* Properties of the clipboard paste *)

\* C37: text pasted with Ctrl/Cmd+V is inserted only into the area that was
\* focused when the paste was requested: if focus has moved to another area
\* or been lost by the time the asynchronous clipboard read resolves, no
\* other area's text or caret is changed.
C37_PasteGoesToRequestingArea ==
    [][editorCall'.op = "pasteSettled" =>
        \A a \in 1..Len(editAreas) :
            a # editorCall'.requestedFor => editAreas'[a] = editAreas[a]]_vars

-----------------------------------------------------------------------------
(* TextEffects: solid colors over ranges of a TextArea *)

\* the style ranges that do not overlap [start, end)
RECURSIVE clearRange(_, _, _)
clearRange(styles, start, end) ==
    IF styles = << >> THEN << >>
    ELSE IF Head(styles).end <= start \/ Head(styles).start >= end
    THEN <<Head(styles)>> \o clearRange(Tail(styles), start, end)
    ELSE clearRange(Tail(styles), start, end)

\* TextEffects.applyColor(area, start, end, color)
applyColor(a, start, end, color) ==
    [a EXCEPT !.styles =
        Append(clearRange(a.styles, start, end),
               TextStyle(start, end, Some(color), None, None, None, None))]

\* the colors applied
EffectColors == {"0xff0000", "0x0000ff"}

\* a TextArea with a text and no styles yet
EffectsInit ==
    /\ area = [TextAreaNew EXCEPT !.text = Run("a", MaxLen + 1)]
    /\ areaGlyphs = << >>
    /\ areaCall = AreaCall("new", 0, 0, 0)
    /\ EditorIdle
    /\ BoxIdle
    /\ TextInit(1)

\* applyColor over a non-empty range of the text
ApplyColor ==
    \E start \in 0..(Len(area.text) - 1), color \in EffectColors :
        \E end \in (start + 1)..Len(area.text) :
            /\ area' = applyColor(area, start, end, color)
            /\ areaCall' = AreaCall("applyColor", start, end, 0)
            /\ UNCHANGED <<areaGlyphs, editorVars, boxVars, textVars>>

EffectsNext ==
    \/ ApplyColor
    \/ ComputeLayout

\* a TextArea colored range by range and laid out
SpecEffects == EffectsInit /\ [][EffectsNext]_vars

\* the color computeLayout resolves for index i of the text of area a
ResolvedColor(a, i) == GlyphStyle(a, FALSE, i).charColor

\* C38: applyColor(area, start, end, color) changes the resolved color only
\* of indices in [start, end): every index outside the range keeps the color
\* it resolved to before the call, including indices covered by an earlier
\* style range that partially overlaps [start, end).
C38_ColorChangesOnlyInRange ==
    [][areaCall'.op = "applyColor" =>
        \A i \in 0..(Len(area.text) - 1) :
            (i < areaCall'.x \/ i >= areaCall'.y) =>
                ResolvedColor(area', i) = ResolvedColor(area, i)]_vars

====
